---- MODULE Spec2Model ----
(***************************************************************************)
(* A model of reprotest: the shell-glob sanitizer (shell_syn.py), the      *)
(* build script emitted by Build.to_script and the variation planner       *)
(* (build.py), the testbed lifecycle around corun_builds and the drivers   *)
(* run, check and check_auto (__init__.py).                                *)
(*                                                                         *)
(* Strings that are scanned character by character are sequences of        *)
(* one-character strings.  Each part of the program has its own            *)
(* specification (SpecSan, SpecSanWords, SpecScript, SpecSignal,           *)
(* SpecChoice, SpecFaketime, SpecTestbed, SpecLoop, SpecPlan, SpecTools,   *)
(* SpecExtend, SpecRun, SpecVerdict, SpecAuto, SpecStore, SpecMain,        *)
(* SpecArgs); the variables of the other parts stay at their idle values.  *)
(***************************************************************************)
EXTENDS Integers, Sequences, FiniteSets, TLC

VARIABLES
    \* ---- shell_syn.sanitize_globs ----
    s,              \* the snippet being sanitized
    pos,            \* number of characters of s the for loop has consumed
    in_quote,       \* "False", "'" or "\""
    escaped,        \* BOOLEAN
    cw,             \* the current word, or None
    words,          \* the finished words
    san_result,     \* "idle", "running", "accepted" or "rejected" (ValueError)
    san_out,        \* the returned snippet (join=True)
    forcerel,       \* the argument forcerel of sanitize_globs
    \* ---- the script of Build.to_script, run by sh -ec ----
    no_clean_on_error,  \* the argument of to_script / start_testbed
    setup_rc,       \* exit status each command of build.setup would return
    build_rc,       \* exit status build.build_command would return
    cleanup_rc,     \* exit status each command of build.cleanup would return
    sh_pc,          \* where the shell is in the script
    sh_i,           \* index of the next command of the list being run
    sh_status,      \* $? of ( run_build )
    sh_x,           \* $__x
    sh_c,           \* $__c
    cleanup_calls,  \* how many times the function cleanup was called
    cleanup_done,   \* how many cleanup commands were executed
    build_ran,      \* whether build_command was executed
    exit_status,    \* the exit status of the script, -1 while it runs
    \* ---- start_testbed and the coroutine corun_builds ----
    testbed_pre,    \* whether a testbed_pre hook or a source_pattern is configured
    testbed_init,   \* whether a testbed_init snippet is configured
    gen,            \* the generator: "unprimed", "suspended" or "finished"
    testbed_started,\* testbed.start() has returned
    testbed_open,   \* testbed.open() has returned
    should_clean,   \* start_testbed's local
    stop_calls,     \* how many times testbed.stop() was called
    raised,         \* the exception that left corun_builds, or "none"
    names_seen,     \* corun_builds' local
    ops,            \* the operations issued to the testbed, in order
    sent,           \* the sends made: the name and what the environment makes fail
    raised_step,    \* the step that raised the exception, or "none"
    \* ---- BuildContext.plan_variations and the planned Build ----
    spec,           \* the VariationSpec of the build (ctx.spec)
    build,          \* the Build value being planned
    plan_pc,        \* "idle", "start", "planning", "done" or "error" (ValueError)
    plan_i,         \* index in VARIATIONS of the next action
    applied,        \* the calls action(ctx, build, vary) made so far: <<name, vary>>
    path_tools,     \* the programs shutil.which finds
    warned,         \* run: the list missing, as <<var, tools>>
    ext_token,      \* the token given to VariationSpec.extend
    ext_hist,       \* the specs extend returned, in order
    \* ---- the planned script run on the testbed's filesystem ----
    fs,             \* directories, files, mounts, place and owner of the tree
    run_pc,         \* "idle", "setup", "cleanup" or "done"
    run_i,          \* index of the next setup or cleanup command
    failed_at,      \* index of the run_build command that failed, 0 if none
    run_c,          \* $__c of the cleanup subshell: 1 once a cleanup command failed
    cleaned,        \* whether ( cleanup ) was run
    \* ---- run, check and check_auto ----
    check_func,     \* "check" or "check_auto" (--auto-build)
    drv_pc,         \* where the driver is
    local_dists,    \* check: the names of the builds whose local_dist was returned
    diff_out,       \* what run_diff returns for the dist of each build (its return code)
    retcodes,       \* check: the OrderedDict retcodes, as a sequence of <<name, code>>
    partial_names,  \* check: the names printed as partially successful
    var_x1,         \* check_auto: the names the full spec has a configuration for
    oracle,         \* check_auto: what is_reproducible gives for each build name
    var_cur,        \* check_auto: the names var_cur has the full spec's configuration for
    unreproducibles,\* check_auto: the list of witnesses
    tested,         \* check_auto: <<name, spec>> of each is_reproducible call, in order
    drv_result,     \* "none", "True", "False" or the exception that left the driver
    drv_exit,       \* the value run returns, -1 before
    hashes_emitted, \* whether output_reproducible_hashes was called
    source_pattern, \* run: the --source-pattern argument, or None
    proc_exit,      \* the exit status of the reprotest process, -1 while it runs
    \* ---- signals delivered to the shell that runs the script ----
    sig_pending,    \* a trapped signal was received and its action has not run yet
    sig_count,      \* how many signals were delivered
    trap_calls,     \* how many times the trap action '( cleanup )' was run
    \* ---- the random choice in user_group ----
    ug_available,   \* ctx.spec.user_group.available: a set of strings
    ug_pc,          \* "idle", "start", "ignored", "chosen", "parsed" or "error"
    ug_choice,      \* what random.choice returned
    ug_parsed,      \* what parse_user_group returned: <<user, group>>
    \* ---- the choice of the faked time in faketime ----
    ft_faketimes,   \* ctx.spec.time.faketimes: a set of strings
    ft_now,         \* time.time()
    ft_pc,          \* "idle", "start", "chosen", "done" or "error"
    ft_lastmt,      \* what random.choice returned
    ft_faket,       \* the argument given to the faketime command
    \* ---- the artifact directories under the store directory ----
    store_dir,      \* whether --store-dir is given (else None)
    dist_state      \* for each build whose local_dist exists: "dir" or "symlink"

sanVars == <<s, pos, in_quote, escaped, cw, words, san_result, san_out, forcerel>>

shVars == <<setup_rc, build_rc, cleanup_rc, sh_pc, sh_i, sh_status, sh_x, sh_c,
            cleanup_calls, cleanup_done, build_ran, exit_status>>

tbVars == <<testbed_pre, testbed_init, gen, testbed_started, testbed_open, should_clean,
            stop_calls, raised, names_seen, ops,
           sent, raised_step>>

planVars == <<spec, build, plan_pc, plan_i, applied, path_tools, warned, ext_token, ext_hist>>

runVars == <<fs, run_pc, run_i, failed_at, run_c, cleaned>>

drvVars == <<check_func, drv_pc, local_dists, diff_out, retcodes, partial_names,
             var_x1, oracle, var_cur, unreproducibles, tested, drv_result, drv_exit,
             hashes_emitted, source_pattern, proc_exit>>

sigVars == <<sig_pending, sig_count, trap_calls>>

ugVars == <<ug_available, ug_pc, ug_choice, ug_parsed>>

UgIdle == ug_available = {} /\ ug_pc = "idle" /\ ug_choice = <<>> /\ ug_parsed = <<>>

ftVars == <<ft_faketimes, ft_now, ft_pc, ft_lastmt, ft_faket>>

FtIdle == ft_faketimes = {} /\ ft_now = 0 /\ ft_pc = "idle" /\ ft_lastmt = <<>> /\ ft_faket = <<>>

stVars == <<store_dir, dist_state>>

StIdle == store_dir = FALSE /\ dist_state = <<>>

vars == <<sanVars, no_clean_on_error, shVars, tbVars, planVars, runVars, drvVars, sigVars, ugVars, ftVars, stVars>>

SigIdle == sig_pending = FALSE /\ sig_count = 0 /\ trap_calls = 0

(***************************************************************************)
(* shell_syn.py                                                            *)
(***************************************************************************)

\* The backtick character (a string literal cannot hold it).
Backtick == "BACKTICK"

\* Longest snippet handed to sanitize_globs.
MaxGlobLen == 4

\* The characters snippets are drawn from: a glob character, the word
\* separator, the three quoting characters and shell-special characters.
Alphabet == {"a", " ", "\\", "'", "\"", "$", Backtick, ";", "|"}

Snippets == UNION {[1..n -> Alphabet] : n \in 0..MaxGlobLen}

\* Patterns that name an absolute path, as given to TestArgs.of: bare and
\* in single quotes.
AbsolutePatterns ==
    {<<"/", "e", "t", "c", "/", "*">>, <<"'", "/", "e", "t", "c", "/", "*", "'">>}

special_except_quotes_no_dollar == {"\n", "\t", "|", "&", ";", "<", ">", "(", ")", Backtick}
special_except_quotes == {"\n", "\t", "|", "&", ";", "<", ">", "(", ")", "$", Backtick}

special_in_double_quotes_no_backtick == {"$"}
special_in_double_quotes == {"$", Backtick}

escaped_in_double_quotes == {"$", Backtick, "\"", "\\", "\n"}

\* Python's None for cw (cw is otherwise a non-empty string).
None == <<"None">>

\* cw = c if cw is None else cw + c
AppendCw(w, c) == IF w = None THEN <<c>> ELSE Append(w, c)

\* next_word(): returns <<cw, words>>
next_word(w, ws) == IF w # None THEN <<None, Append(ws, w)>> ELSE <<w, ws>>

\* " ".join(words)
RECURSIVE JoinWords(_)
JoinWords(ws) ==
    IF ws = <<>> THEN <<>>
    ELSE IF Len(ws) = 1 THEN ws[1]
    ELSE ws[1] \o <<" ">> \o JoinWords(Tail(ws))

\* ["./" + w for w in words] if forcerel else words
ForceRel(ws, rel) ==
    IF rel THEN [i \in 1..Len(ws) |-> <<".", "/">> \o ws[i]] ELSE ws

\* One iteration of "for c in s" in the unquoted state.
ScanUnquoted(c) ==
    IF escaped
    THEN /\ escaped' = FALSE
         /\ cw' = AppendCw(cw, c)
         /\ UNCHANGED <<in_quote, words, san_result>>
    ELSE IF c \in special_except_quotes
    THEN /\ san_result' = "rejected"
         /\ UNCHANGED <<in_quote, escaped, cw, words>>
    ELSE IF c = "\\"
    THEN /\ escaped' = TRUE
         /\ cw' = AppendCw(cw, c)
         /\ UNCHANGED <<in_quote, words, san_result>>
    ELSE IF c \in {"'", "\""}
    THEN /\ in_quote' = c
         /\ cw' = AppendCw(cw, c)
         /\ UNCHANGED <<escaped, words, san_result>>
    ELSE IF c = " "
    THEN /\ cw' = next_word(cw, words)[1]
         /\ words' = next_word(cw, words)[2]
         /\ UNCHANGED <<in_quote, escaped, san_result>>
    ELSE /\ cw' = AppendCw(cw, c)
         /\ UNCHANGED <<in_quote, escaped, words, san_result>>

\* One iteration inside a single-quoted span.
ScanSingle(c) ==
    /\ in_quote' = IF c = "'" THEN "False" ELSE in_quote
    /\ cw' = AppendCw(cw, c)
    /\ UNCHANGED <<escaped, words, san_result>>

\* One iteration inside a double-quoted span.
ScanDouble(c) ==
    IF escaped
    THEN /\ escaped' = FALSE
         /\ cw' = IF c \notin escaped_in_double_quotes
                  THEN AppendCw(AppendCw(cw, "\\"), c)
                  ELSE AppendCw(cw, c)
         /\ UNCHANGED <<in_quote, words, san_result>>
    ELSE IF c \in special_in_double_quotes
    THEN /\ san_result' = "rejected"
         /\ UNCHANGED <<in_quote, escaped, cw, words>>
    ELSE /\ escaped' = (c = "\\")
         /\ in_quote' = IF c = "\"" THEN "False" ELSE in_quote
         /\ cw' = AppendCw(cw, c)
         /\ UNCHANGED <<words, san_result>>

\* The body of the for loop, for the next character of s.
SanChar ==
    /\ san_result = "running"
    /\ pos < Len(s)
    /\ pos' = pos + 1
    /\ LET c == s[pos + 1] IN
         IF in_quote = "False" THEN ScanUnquoted(c)
         ELSE IF in_quote = "'" THEN ScanSingle(c)
         ELSE ScanDouble(c)
    /\ UNCHANGED <<s, san_out, forcerel>>

\* "if in_quote or escaped" after the loop.
unclosed_quote_only(q, e) == q # "False"
unclosed(q, e) == q # "False" \/ e

\* After the loop: the unclosed check, next_word() and the return value.
SanEnd ==
    /\ san_result = "running"
    /\ pos = Len(s)
    /\ IF unclosed(in_quote, escaped)
       THEN /\ san_result' = "rejected"
            /\ UNCHANGED <<cw, words, san_out>>
       ELSE /\ san_result' = "accepted"
            /\ cw' = next_word(cw, words)[1]
            /\ words' = ForceRel(next_word(cw, words)[2], forcerel)
            /\ san_out' = JoinWords(words')
    /\ UNCHANGED <<s, pos, in_quote, escaped, forcerel>>

SanIdle ==
    /\ s = <<>> /\ pos = 0 /\ in_quote = "False" /\ escaped = FALSE
    /\ cw = None /\ words = <<>> /\ san_result = "idle" /\ san_out = <<>>
    /\ forcerel = TRUE

(***************************************************************************)
(* build.py: Build.to_script, as sh -ec runs the script it renders         *)
(***************************************************************************)

\* Most commands in build.setup and in build.cleanup.
MaxSetup == 2
MaxCleanup == 2

\* Exit statuses a command can return: success and two distinct failures.
ExitCodes == {0, 1, 2}

SeqsUpTo(S, n) == UNION {[1..k -> S] : k \in 0..n}

\* whether_to_clean = '! ' + str(bool(no_clean_on_error)).lower(), evaluated
\* by "if ( ! true )" or "if ( ! false )".
WhetherToCleanFlipped(ncoe) == ncoe
WhetherToClean(ncoe) == ~ncoe

\* prepend_cleanup: "{0} || __c=$?" gives the new value of __c.
CleanupCatchFirst(c, rc) == IF c = 0 THEN rc ELSE c
CleanupCatchLast(c, rc) == rc
CleanupCatch(c, rc) == IF rc # 0 THEN rc ELSE c

ElseExit(x, c) == x

\* "if self.cleanup:" chooses between the script with the functions run_build
\* and cleanup and the bare and-list str(subshell).
ShStart ==
    /\ sh_pc = "start"
    /\ sh_pc' = IF cleanup_rc # <<>> THEN "run_build" ELSE "subshell"
    /\ UNCHANGED <<setup_rc, build_rc, cleanup_rc, sh_i, sh_status, sh_x, sh_c,
                   cleanup_calls, cleanup_done, build_ran, exit_status>>

\* The and-list has ended with status rc: either it was the whole script, or
\* it was the condition of "if ( run_build )".
AndListEnds(rc) ==
    /\ sh_status' = rc
    /\ IF sh_pc = "subshell"
       THEN /\ sh_pc' = "done"
            /\ exit_status' = rc
            /\ UNCHANGED <<sh_i, sh_c, cleanup_calls>>
       ELSE IF rc = 0
       THEN \* then ( cleanup ): __c=0
            /\ sh_pc' = "then_cleanup"
            /\ sh_i' = 1
            /\ sh_c' = 0
            /\ cleanup_calls' = cleanup_calls + 1
            /\ UNCHANGED exit_status
       ELSE /\ sh_pc' = "else"
            /\ UNCHANGED <<sh_i, sh_c, cleanup_calls, exit_status>>

\* subshell = self.setup + AndList([self.build_command]): the next setup
\* command; a failure ends the and-list.
RunSetupCmd ==
    /\ sh_pc \in {"run_build", "subshell"}
    /\ sh_i <= Len(setup_rc)
    /\ IF setup_rc[sh_i] = 0
       THEN /\ sh_i' = sh_i + 1
            /\ UNCHANGED <<sh_pc, sh_status, sh_c, cleanup_calls, exit_status>>
       ELSE AndListEnds(setup_rc[sh_i])
    /\ UNCHANGED <<setup_rc, build_rc, cleanup_rc, sh_x, cleanup_done, build_ran>>

\* The last command of the and-list, build_command.
RunBuildCommand ==
    /\ sh_pc \in {"run_build", "subshell"}
    /\ sh_i > Len(setup_rc)
    /\ build_ran' = TRUE
    /\ AndListEnds(build_rc)
    /\ UNCHANGED <<setup_rc, build_rc, cleanup_rc, sh_x, cleanup_done>>

\* else __x=$?; if ( whether_to_clean ); then if ( cleanup ) ...
ElseBranch ==
    /\ sh_pc = "else"
    /\ sh_x' = sh_status
    /\ IF WhetherToClean(no_clean_on_error)
       THEN /\ sh_pc' = "else_cleanup"
            /\ sh_i' = 1
            /\ sh_c' = 0
            /\ cleanup_calls' = cleanup_calls + 1
       ELSE /\ sh_pc' = "exit_x"
            /\ UNCHANGED <<sh_i, sh_c, cleanup_calls>>
    /\ UNCHANGED <<setup_rc, build_rc, cleanup_rc, sh_status, cleanup_done,
                   build_ran, exit_status>>

\* The next command of the cleanup list, "cmd || __c=$?".
CleanupCmd ==
    /\ sh_pc \in {"then_cleanup", "else_cleanup"}
    /\ sh_i <= Len(cleanup_rc)
    /\ sh_c' = CleanupCatch(sh_c, cleanup_rc[sh_i])
    /\ sh_i' = sh_i + 1
    /\ cleanup_done' = cleanup_done + 1
    /\ UNCHANGED <<setup_rc, build_rc, cleanup_rc, sh_pc, sh_status, sh_x,
                   cleanup_calls, build_ran, exit_status>>

\* "exit $__c" ends the cleanup subshell.  In the then branch its status is
\* the status of the if command, the last command of the script; in the else
\* branch a failure is only reported on stderr.
CleanupExit ==
    /\ sh_pc \in {"then_cleanup", "else_cleanup"}
    /\ sh_i > Len(cleanup_rc)
    /\ IF sh_pc = "then_cleanup"
       THEN /\ sh_pc' = "done"
            /\ exit_status' = sh_c
       ELSE /\ sh_pc' = "exit_x"
            /\ UNCHANGED exit_status
    /\ UNCHANGED <<setup_rc, build_rc, cleanup_rc, sh_i, sh_status, sh_x, sh_c,
                   cleanup_calls, cleanup_done, build_ran>>

\* exit $__x
ExitX ==
    /\ sh_pc = "exit_x"
    /\ sh_pc' = "done"
    /\ exit_status' = ElseExit(sh_x, sh_c)
    /\ UNCHANGED <<setup_rc, build_rc, cleanup_rc, sh_i, sh_status, sh_x, sh_c,
                   cleanup_calls, cleanup_done, build_ran>>

\* Most signals delivered while one script runs.
MaxSignals == 2

\* The status of "( cleanup )": __c=0, each command "cmd || __c=$?", exit $__c.
RECURSIVE CleanupStatus(_, _)
CleanupStatus(rcs, c) ==
    IF rcs = <<>> THEN c
    ELSE CleanupStatus(Tail(rcs), CleanupCatch(c, Head(rcs)))

\* The shell itself, not a subshell it waits for, is about to run a command:
\* before "if ( run_build )", between the condition and the branch taken,
\* before "exit $__x", and after the if command when the then branch ended.
BetweenCommands ==
    \/ sh_pc \in {"run_build", "then_cleanup"} /\ sh_i = 1
    \/ sh_pc \in {"else", "exit_x"}
    \/ sh_pc = "done" /\ sh_status = 0

\* One of HUP INT QUIT ABRT TERM PIPE reaches the shell after the trap
\* command, the first command of main_script, and before the shell has exited.
SignalDelivered ==
    /\ sh_pc \in {"run_build", "then_cleanup", "else", "else_cleanup", "exit_x"}
    /\ sig_count < MaxSignals
    /\ sig_count' = sig_count + 1
    /\ sig_pending' = TRUE
    /\ UNCHANGED <<shVars, trap_calls>>

\* trap '( cleanup )' ...: the action runs once the foreground subshell has
\* completed; the script then resumes where it was.  The script is run by
\* sh -e: when ( cleanup ) returns non-zero the shell may exit with that
\* status or carry on, depending on the shell.
TrapAction ==
    /\ sig_pending
    /\ BetweenCommands
    /\ sig_pending' = FALSE
    /\ trap_calls' = trap_calls + 1
    /\ cleanup_calls' = cleanup_calls + 1
    /\ cleanup_done' = cleanup_done + Len(cleanup_rc)
    /\ \/ UNCHANGED <<sh_pc, exit_status>>
       \/ /\ CleanupStatus(cleanup_rc, 0) # 0
          /\ sh_pc' = "done"
          /\ exit_status' = CleanupStatus(cleanup_rc, 0)
    /\ UNCHANGED <<setup_rc, build_rc, cleanup_rc, sh_i, sh_status, sh_x, sh_c,
                   build_ran, sig_count>>

ShIdle ==
    /\ setup_rc = <<>> /\ build_rc = 0 /\ cleanup_rc = <<>>
    /\ sh_pc = "idle" /\ sh_i = 1 /\ sh_status = 0 /\ sh_x = 0 /\ sh_c = 0
    /\ cleanup_calls = 0 /\ cleanup_done = 0 /\ build_ran = FALSE
    /\ exit_status = -1

(***************************************************************************)
(* __init__.py: start_testbed and TestArgs.corun_builds                    *)
(***************************************************************************)

\* The build names a driver sends: check sends "control" and
\* "experiment-<i>", check_auto "control" and "experiment-<name>".
BuildNames == {"control", "experiment-0", "experiment-1"}

\* run_build calls _.to_script() with no argument; Build.to_script takes
\* no_clean_on_error.
ToScriptArgsGiven == 0
ToScriptArgsRequired == 1

\* What can fail before the first yield: the source_root check, the copy of
\* the source and the testbed_pre hook (run only "if testbed_pre or
\* source_pattern"), testbed.start(), testbed.open().
PrimeFailures ==
    {"none", "source_root", "start", "open"}
    \cup (IF testbed_pre THEN {"testbed_pre"} ELSE {})

\* What the environment can make fail during one send: the plan
\* (apply_dynamic_defaults, plan_variations) and each testbed operation.
SendFailures == {"none", "plan", "testbed_init", "copydown", "rm", "execute",
                 "copy", "touch", "copyup"}

\* The exception each failing step raises.
ExceptionOf(step) ==
    CASE step \in {"source_root", "plan", "duplicate"} -> "ValueError"
      [] step = "testbed_pre" -> "CalledProcessError"
      [] step = "to_script" -> "TypeError"
      [] OTHER -> "AutopkgtestError"

\* The steps of the loop body after the duplicate check, in order.
SendSteps ==
    <<"plan">> \o (IF testbed_init THEN <<"testbed_init">> ELSE <<>>)
    \o <<"copydown", "rm", "to_script", "execute", "copy", "touch", "copyup">>

\* Whether a step raises, given what the environment makes fail.
StepRaises(step, fail) ==
    \/ step = fail
    \/ step = "to_script" /\ ToScriptArgsGiven # ToScriptArgsRequired

\* The number of steps of the loop body that are started: up to and
\* including the first one that raises.
RECURSIVE StepsStarted(_, _, _)
StepsStarted(steps, fail, k) ==
    IF k > Len(steps) THEN Len(steps)
    ELSE IF StepRaises(steps[k], fail) THEN k
    ELSE StepsStarted(steps, fail, k + 1)

\* The steps that are operations on the testbed (the others run locally).
IsTestbedOp(step) == step \notin {"plan", "to_script"}

StartTestbedExit(exc) ==
    LET clean == IF exc # "none" /\ no_clean_on_error THEN FALSE
                 ELSE should_clean
    IN  <<clean, IF clean THEN stop_calls + 1 ELSE stop_calls>>

\* corun_builds leaves its with blocks, normally or with exception exc.
LeaveWith(exc) ==
    /\ gen' = "finished"
    /\ raised' = exc
    /\ should_clean' = StartTestbedExit(exc)[1]
    /\ stop_calls' = StartTestbedExit(exc)[2]

\* Whether a testbed.open() that fails calls stop() itself before it
\* raises. The facade's open() makes the testbed ready, a failure is raised
\* through bomb(), which raises a terminal error, and stop() is the only
\* verb that releases resources.
open_failure_stops == FALSE

\* @coroutine: corun_builds is called and run up to its first yield.
Prime ==
    /\ gen = "unprimed"
    /\ \E fail \in PrimeFailures :
         /\ testbed_started' = (fail \notin {"source_root", "testbed_pre", "start"})
         /\ testbed_open' = (fail = "none")
         /\ IF fail = "none"
            THEN /\ gen' = "suspended"
                 /\ should_clean' = TRUE
                 /\ UNCHANGED <<raised, raised_step>>
            ELSE /\ gen' = "finished"
                 /\ raised' = ExceptionOf(fail)
                 /\ raised_step' = fail
                 /\ UNCHANGED should_clean
         /\ ops' = ops \o (IF fail \in {"source_root", "testbed_pre"} THEN <<>>
                           ELSE IF fail = "start" THEN <<<<"start", "">>>>
                           ELSE <<<<"start", "">>, <<"open", "">>>>)
         /\ stop_calls' = IF fail = "open" /\ open_failure_stops
                          THEN stop_calls + 1 ELSE stop_calls
    /\ UNCHANGED <<testbed_pre, testbed_init, names_seen, sent>>

\* proc.send((name, var)): one turn of the while loop, up to the next yield
\* or to the exception that ends the coroutine.
Send ==
    /\ gen = "suspended"
    /\ \E name \in BuildNames, fail \in SendFailures :
         /\ sent' = Append(sent, [name |-> name, fail |-> fail,
                                  fresh |-> name \notin names_seen])
         /\ IF name \in names_seen
            THEN /\ LeaveWith(ExceptionOf("duplicate"))
                 /\ raised_step' = "duplicate"
                 /\ ops' = ops \o (IF StartTestbedExit(ExceptionOf("duplicate"))[1]
                                   THEN <<<<"stop", "">>>> ELSE <<>>)
                 /\ UNCHANGED names_seen
            ELSE LET n == StepsStarted(SendSteps, fail, 1)
                     failed == StepRaises(SendSteps[n], fail)
                     exc == IF failed THEN ExceptionOf(SendSteps[n]) ELSE "none"
                     issued == SelectSeq([k \in 1..n |-> <<SendSteps[k], name>>],
                                         LAMBDA o : IsTestbedOp(o[1]))
                 IN  /\ names_seen' = names_seen \cup {name}
                     /\ IF failed
                        THEN /\ LeaveWith(exc)
                             /\ raised_step' = SendSteps[n]
                             /\ ops' = ops \o issued \o
                                       (IF StartTestbedExit(exc)[1]
                                        THEN <<<<"stop", "">>>> ELSE <<>>)
                        ELSE /\ ops' = ops \o issued
                             /\ UNCHANGED <<gen, raised, should_clean, stop_calls,
                                            raised_step>>
    /\ UNCHANGED <<testbed_pre, testbed_init, testbed_started, testbed_open>>

\* proc.send(None): "while name_variation" ends, the with blocks are left
\* normally and the generator returns.
SendEmpty ==
    /\ gen = "suspended"
    /\ LeaveWith("none")
    /\ ops' = ops \o (IF StartTestbedExit("none")[1] THEN <<<<"stop", "">>>> ELSE <<>>)
    /\ UNCHANGED <<testbed_pre, testbed_init, testbed_started, testbed_open, names_seen,
                   sent, raised_step>>

\* The driver drops or closes the suspended generator (check and check_auto
\* return without sending an empty value): GeneratorExit is raised at the
\* yield.
Close ==
    /\ gen = "suspended"
    /\ LeaveWith("GeneratorExit")
    /\ ops' = ops \o (IF StartTestbedExit("GeneratorExit")[1]
                      THEN <<<<"stop", "">>>> ELSE <<>>)
    /\ UNCHANGED <<testbed_pre, testbed_init, testbed_started, testbed_open, names_seen,
                   sent, raised_step>>

\* The loop of corun_builds taken by itself, with bctx.run_build as a call
\* that returns or raises.  The steps of one turn after the duplicate
\* check, in order.
LoopSteps ==
    <<"plan">> \o (IF testbed_init THEN <<"testbed_init">> ELSE <<>>)
    \o <<"copydown", "run_build", "copyup">>

\* What can raise during one turn.
LoopFailures == {"none", "plan", "testbed_init", "copydown", "run_build", "copyup"}

\* The number of steps of one turn that are started.
LoopStepsStarted(fail) ==
    IF \E k \in 1..Len(LoopSteps) : LoopSteps[k] = fail
    THEN CHOOSE k \in 1..Len(LoopSteps) : LoopSteps[k] = fail
    ELSE Len(LoopSteps)

\* The exception a failing step of the loop raises.
LoopExceptionOf(step) ==
    IF step \in {"plan", "duplicate"} THEN "ValueError" ELSE "AutopkgtestError"

\* "if name in names_seen"
already_built_never(name, seen) == FALSE
already_built(name, seen) == name \in seen

\* proc.send((name, var)): one turn of the while loop, up to the next yield
\* or to the exception that ends the coroutine.
LoopSend ==
    /\ gen = "suspended"
    /\ \E name \in BuildNames, fail \in LoopFailures :
         /\ sent' = Append(sent, [name |-> name, fail |-> fail,
                                  fresh |-> name \notin names_seen])
         /\ IF already_built(name, names_seen)
            THEN /\ LeaveWith(LoopExceptionOf("duplicate"))
                 /\ raised_step' = "duplicate"
                 /\ ops' = ops \o (IF StartTestbedExit(LoopExceptionOf("duplicate"))[1]
                                   THEN <<<<"stop", "">>>> ELSE <<>>)
                 /\ UNCHANGED names_seen
            ELSE LET n == LoopStepsStarted(fail)
                     failed == LoopSteps[n] = fail
                     exc == IF failed THEN LoopExceptionOf(fail) ELSE "none"
                     issued == SelectSeq([k \in 1..n |-> <<LoopSteps[k], name>>],
                                         LAMBDA o : o[1] # "plan")
                 IN  /\ names_seen' = names_seen \cup {name}
                     /\ IF failed
                        THEN /\ LeaveWith(exc)
                             /\ raised_step' = fail
                             /\ ops' = ops \o issued \o
                                       (IF StartTestbedExit(exc)[1]
                                        THEN <<<<"stop", "">>>> ELSE <<>>)
                        ELSE /\ ops' = ops \o issued
                             /\ UNCHANGED <<gen, raised, should_clean, stop_calls,
                                            raised_step>>
    /\ UNCHANGED <<testbed_pre, testbed_init, testbed_started, testbed_open>>

TbIdle ==
    /\ testbed_pre = FALSE /\ testbed_init = FALSE /\ gen = "idle"
    /\ testbed_started = FALSE /\ testbed_open = FALSE /\ should_clean = FALSE
    /\ stop_calls = 0 /\ raised = "none" /\ names_seen = {} /\ ops = <<>>
    /\ sent = <<>> /\ raised_step = "none"

(***************************************************************************)
(* build.py: Build, the variation transforms and VARIATIONS;               *)
(* __init__.py: BuildContext.make_build_commands and plan_variations       *)
(*                                                                         *)
(* A path is a record [dir, base] of its normalised directory and its last *)
(* component, so that dirname and basename are as in build.py; commands    *)
(* hold the path as a string without the trailing separator.  A command is *)
(* its sequence of words; the text of a "sh -ec" snippet is kept as a      *)
(* format string followed by its arguments.                                *)
(***************************************************************************)

dirname(p) == p.dir
basename(p) == p.base
join(d, b) == [dir |-> d, base |-> b]
PathStr(p) == p.dir \o "/" \o p.base

\* testbed.scratch and the name of the build.
testbed_root == "/scratch"
build_name == "experiment-1"

\* BuildContext.testbed_src
testbed_src == join(testbed_root, "build-" \o build_name)

\* os.environ of the process that plans.
os_environ == [k \in {"PATH", "HOME"} |->
                 IF k = "PATH" THEN "/usr/bin" ELSE "/home/user1"]

\* current_user_group()
olduser == "user1"
oldgroup == "group1"

\* Build.add_env
add_env(b, key, value) ==
    [b EXCEPT !.env = [k \in DOMAIN b.env \cup {key} |->
                         IF k = key THEN value ELSE b.env[k]]]

\* Build.prepend_to_build_command: the prefix wraps the command so far.
\* build_command is the sequence of its layers, outermost first; the last
\* one is sh -ec <the user's command>.
prepend_inside_build_command(b, prefix) ==
    [b EXCEPT !.build_command =
        SubSeq(b.build_command, 1, Len(b.build_command) - 1)
        \o <<prefix>> \o <<b.build_command[Len(b.build_command)]>>]
prepend_to_build_command(b, prefix) ==
    [b EXCEPT !.build_command = <<prefix>> \o b.build_command]

\* Build.append_setup, append_setup_exec, append_setup_exec_raw
append_setup(b, command) == [b EXCEPT !.setup = Append(b.setup, command)]

\* Build.prepend_cleanup, prepend_cleanup_exec, prepend_cleanup_exec_raw
append_cleanup(b, command) == [b EXCEPT !.cleanup = Append(b.cleanup, command)]
prepend_cleanup(b, command) == [b EXCEPT !.cleanup = <<command>> \o b.cleanup]

\* Build.move_tree
move_tree_one_way(b, source, target, set_tree) ==
    LET new_build == append_setup(b, <<"mv", PathStr(source), PathStr(target)>>)
    IN  IF set_tree THEN [new_build EXCEPT !.tree = target] ELSE new_build
move_tree(b, source, target, set_tree) ==
    LET new_build == prepend_cleanup(
                         append_setup(b, <<"mv", PathStr(source), PathStr(target)>>),
                         <<"mv", PathStr(target), PathStr(source)>>)
    IN  IF set_tree THEN [new_build EXCEPT !.tree = target] ELSE new_build

\* Build.from_command
from_command(build_command, env, tree) ==
    LET aux_tree == join(dirname(tree), basename(tree) \o "-aux")
        b0 == [build_command |-> <<<<"sh", "-ec", build_command>>>>,
               setup |-> <<>>,
               cleanup |-> <<>>,
               env |-> env,
               tree |-> tree,
               aux_tree |-> aux_tree]
    IN  prepend_cleanup(append_setup(b0, <<"mkdir", "-p", PathStr(aux_tree)>>),
                        <<"rm", "-rf", PathStr(aux_tree)>>)

\* environ.parse_environ_templates on ctx.spec.environment.variables: the
\* default template REPROTEST_CAPTURE_ENVIRONMENT adds that variable.
parse_environ_templates(variables) ==
    [i \in 1..Len(variables) |-> <<variables[i], "1">>]

\* environment(ctx, build, vary); no default template unsets a variable.
RECURSIVE modify_env(_, _)
modify_env(b, added) ==
    IF added = <<>> THEN b
    ELSE modify_env(add_env(b, Head(added)[1], Head(added)[2]), Tail(added))

environment(ctx, b, vary) ==
    IF ~vary THEN b
    ELSE modify_env(b, parse_environ_templates(ctx.spec.variables))

\* build_path(ctx, build, vary)
build_path(ctx, b, vary) ==
    IF vary THEN b
    ELSE move_tree(b, b.tree, join(dirname(b.tree), "const_build_path"), TRUE)

\* make_sudo_command(user, group); "" stands for None.
make_sudo_command(user, group) ==
    <<"sudo", "-E">>
    \o (IF user # "" THEN <<"-u", user>> ELSE <<>>)
    \o (IF group # "" THEN <<"-g", group>> ELSE <<>>)
    \o <<"env", "-u", "SUDO_COMMAND", "-u", "SUDO_GID", "-u", "SUDO_UID",
         "-u", "SUDO_USER">>

\* user_group(ctx, build, vary); ug is random.choice's pick, already parsed
\* by parse_user_group into <<user, group>>.
user_group(ctx, b, vary, ug) ==
    IF ~vary THEN b
    ELSE IF ctx.spec.available = {} THEN b
    ELSE LET sudo_command == make_sudo_command(ug[1], ug[2])
             user == IF ug[1] = "" THEN olduser ELSE ug[1]
             binpath == PathStr(join(dirname(b.tree), "bin"))
             b1 == prepend_to_build_command(b, sudo_command)
             b2 == append_setup(b1,
                     <<"sh", "-ec",
                       "mkdir -p {0}; printf > {0}/disorderfs {0}/mkdir {0}/fusermount; chmod +x",
                       binpath>>)
             b3 == prepend_cleanup(b2,
                     <<"sh", "-ec", "cd {0} && rm -f disorderfs mkdir fusermount",
                       binpath>>)
             b4 == append_setup(b3, <<"export", "PATH={0}:$PATH", binpath>>)
         IN  IF user # olduser
             THEN prepend_cleanup(
                      append_setup(b4, <<"sudo", "chown", "-h", "-R",
                                         "--from=" \o olduser, user, PathStr(b.tree)>>),
                      <<"sudo", "chown", "-h", "-R",
                        "--from=" \o user, olduser, PathStr(b.tree)>>)
             ELSE b4

\* The strings of user_group.available, each a sequence of its lexical
\* pieces: a name or ":".  The current pair, another pair, the current user
\* with another group, a group only, a user only.
UserGroupStrings ==
    {<<olduser, ":", oldgroup>>, <<"user2", ":", "group2">>, <<olduser, ":", "group2">>,
     <<":", "group2">>, <<"user2">>, <<olduser>>}

\* Python values: a str and a tuple are never equal.
PyStr(x) == [type |-> "str", val |-> x]
PyTuple(x) == [type |-> "tuple", val |-> x]

\* current_user_group(), each name a string of one piece.
current_user_group == <<<<olduser>>, <<oldgroup>>>>

\* set(ctx.spec.user_group.available) - set([(olduser, oldgroup)])
Candidates(available) ==
    {PyStr(x) : x \in available} \ {PyTuple(current_user_group)}

\* parse_user_group(user_group); None for a missing user or group.
parse_user_group(str) ==
    IF \E i \in 1..Len(str) : str[i] = ":"
    THEN LET i == CHOOSE j \in 1..Len(str) :
                      str[j] = ":" /\ \A k \in 1..(j - 1) : str[k] # ":"
             user == SubSeq(str, 1, i - 1)
             group == SubSeq(str, i + 1, Len(str))
         IN  IF user # <<>> THEN <<user, group>> ELSE <<None, group>>
    ELSE <<str, None>>

\* user_group: "if not ctx.spec.user_group.available" returns the build
\* unchanged; otherwise random.choice picks one of the candidates.
ChooseUserGroup ==
    /\ ug_pc = "start"
    /\ IF ug_available = {}
       THEN /\ ug_pc' = "ignored"
            /\ UNCHANGED ug_choice
       ELSE IF Candidates(ug_available) = {}
       THEN /\ ug_pc' = "error"
            /\ UNCHANGED ug_choice
       ELSE /\ ug_pc' = "chosen"
            /\ \E c \in Candidates(ug_available) : ug_choice' = c.val
    /\ UNCHANGED <<ug_available, ug_parsed>>

\* user, group = parse_user_group(user_group)
ParseUserGroup ==
    /\ ug_pc = "chosen"
    /\ IF ug_choice = <<>> \/ ug_choice = <<":">>
       THEN /\ ug_pc' = "error"
            /\ UNCHANGED ug_parsed
       ELSE /\ ug_pc' = "parsed"
            /\ ug_parsed' = parse_user_group(ug_choice)
    /\ UNCHANGED <<ug_available, ug_choice>>

\* fileordering(ctx, build, vary)
fileordering(ctx, b, vary) ==
    IF ~vary THEN b
    ELSE LET old_tree == join(dirname(b.tree), basename(b.tree) \o "-before-disorderfs")
             b1 == move_tree(b, b.tree, old_tree, FALSE)
             b2 == append_setup(b1, <<"mkdir", "-p", PathStr(b.tree)>>)
             b3 == prepend_cleanup(b2, <<"rmdir", PathStr(b.tree)>>)
             b4 == append_setup(b3,
                     <<"disorderfs", IF ctx.verbosity >= 2 THEN ">&2" ELSE "-q",
                       "--shuffle-dirents=yes", PathStr(old_tree), PathStr(b.tree)>>)
             b5 == prepend_cleanup(b4, <<"fusermount", "-u", PathStr(b.tree)>>)
             binpath == PathStr(join(dirname(b.tree), "bin"))
         IN  prepend_cleanup(b5, <<"export", "PATH={0}:$PATH", binpath>>)

\* domain_host raises ValueError("Incompatible variations").
domain_host_raises(ctx, vary) ==
    /\ vary
    /\ ~ctx.spec.use_sudo
    /\ "user_group" \in ctx.spec.names /\ ctx.spec.available # {}

\* domain_host(ctx, build, vary)
domain_host(ctx, b, vary) ==
    IF ~vary THEN b
    ELSE IF ctx.spec.use_sudo
    THEN LET ns_uts == PathStr(b.aux_tree) \o "/ns-uts"
             ns_mnt == PathStr(b.aux_tree) \o "/ns-mnt"
             hosts == PathStr(b.aux_tree) \o "/hosts"
             ns_args == <<"--mount=" \o ns_mnt, "--uts=" \o ns_uts>>
             nsenter == <<"sudo", "nsenter">> \o ns_args
             b1 == append_setup(b, <<"touch", ns_mnt, ns_uts>>)
             b2 == append_setup(b1, <<"sudo", "mount", "-B", ns_mnt, ns_mnt>>)
             b3 == append_setup(b2, <<"sudo", "mount", "--make-private", ns_mnt>>)
             b4 == prepend_cleanup(b3, <<"sudo", "umount", ns_mnt>>)
             b5 == append_setup(b4, <<"sudo", "unshare">> \o ns_args \o <<"true">>)
             b6 == prepend_cleanup(b5, <<"sudo", "umount", ns_mnt>>)
             b7 == prepend_cleanup(b6, <<"sudo", "umount", ns_uts>>)
             b8 == append_setup(b7, nsenter \o <<"hostname", "reprotest-capture-hostname">>)
             b9 == append_setup(b8, nsenter \o <<"domainname", "reprotest-capture-domainname">>)
             b10 == append_setup(b9,
                      <<"sh", "-ec", "echo 127.0.0.1 {1} > {0}/hosts && cat /etc/hosts >> {0}/hosts",
                        PathStr(b.aux_tree), "reprotest-capture-hostname">>)
             b11 == append_setup(b10, nsenter \o <<"mount", "-B", hosts, "/etc/hosts">>)
         IN  prepend_to_build_command(b11,
                 <<"sudo", "-E", "nsenter">> \o ns_args
                 \o make_sudo_command(olduser, oldgroup))
    ELSE prepend_to_build_command(b,
             <<"unshare", "-r", "--uts", "sh", "-ec",
               "hostname reprotest-capture-hostname; domainname reprotest-capture-domainname; \"$@\"",
               "-">>)

\* home(ctx, build, vary)
home(ctx, b, vary) ==
    IF ~vary THEN add_env(b, "HOME", PathStr(b.tree) \o "/")
    ELSE add_env(b, "HOME", "/nonexistent/second-build")

\* kernel(ctx, build, vary)
kernel(ctx, b, vary) ==
    IF ~vary THEN prepend_to_build_command(b, <<"linux64", "--uname-2.6">>)
    ELSE prepend_to_build_command(b, <<"linux32">>)

\* The list random.choice picks from in locales.
Locales == {"fr_CH.UTF-8", "es_ES", "ru_RU.CP1251", "kk_KZ.RK1048", "zh_CN"}

\* locales(ctx, build, vary); loc is random.choice's pick.
locales(ctx, b, vary, loc) ==
    IF ~vary THEN add_env(add_env(b, "LANG", "C.UTF-8"), "LANGUAGE", "en_US:en")
    ELSE add_env(add_env(add_env(b, "LANG", loc), "LC_ALL", loc),
                 "LANGUAGE", loc \o ":fr")

\* exec_path(ctx, build, vary)
exec_path(ctx, b, vary) ==
    IF ~vary THEN b
    ELSE add_env(b, "PATH", b.env["PATH"] \o ":/i_capture_the_path")

\* What faketime can choose: the picked faketimes entry when it is an
\* absolute time more than 32253180 s in the past, else the relative date.
FakeTimes == {"@lastmt", "+373days+7hours+13minutes"}

\* faketime(ctx, build, vary); faket is the chosen time.
faketime(ctx, b, vary, faket) ==
    IF ~vary THEN b
    ELSE prepend_to_build_command(add_env(b, "NO_FAKE_STAT", "1"),
                                  <<"faketime", faket>>)

\* "int(lastmt[1:]) < now - 32253180"
FaketimeAge == 32253180

\* '+373days+7hours+13minutes' in seconds.
RelativeSeconds == 373 * 86400 + 7 * 3600 + 13 * 60

\* The values time.time() takes: at the age, and just after it.
Nows == {FaketimeAge, FaketimeAge + 1, FaketimeAge + 2}

\* The entries of time.faketimes: "@" followed by an integer, as
\* apply_dynamic_defaults makes them from the newest mtime of the source
\* tree; "@" followed by something else, such as a date; and a string that
\* does not start with "@".  at is startswith("@"), isint is whether int()
\* accepts lastmt[1:], t is its value.
FaketimeEntries ==
    {[at |-> TRUE, isint |-> TRUE, t |-> n] : n \in {-1, 0, 1, 2, FaketimeAge + 1}}
    \cup {[at |-> TRUE, isint |-> FALSE, t |-> 0], [at |-> FALSE, isint |-> FALSE, t |-> 0]}

\* The relative date as an argument of the faketime command.
RelativeDate == [at |-> FALSE, isint |-> FALSE, t |-> RelativeSeconds]

\* The condition of the if, once int() has returned.
far_in_the_past(lastmt, now) == lastmt.at /\ lastmt.t < now - FaketimeAge

\* lastmt = random.choice(ctx.spec.time.faketimes); IndexError on an empty
\* list.
ChooseFaketime ==
    /\ ft_pc = "start"
    /\ IF ft_faketimes = {}
       THEN /\ ft_pc' = "error"
            /\ UNCHANGED ft_lastmt
       ELSE /\ ft_pc' = "chosen"
            /\ ft_lastmt' \in ft_faketimes
    /\ UNCHANGED <<ft_faketimes, ft_now, ft_faket>>

\* The if that sets faket.  "and" evaluates int(lastmt[1:]) whenever lastmt
\* starts with "@": ValueError when it is not an integer.
DecideFaketime ==
    /\ ft_pc = "chosen"
    /\ IF ft_lastmt.at /\ ~ft_lastmt.isint
       THEN /\ ft_pc' = "error"
            /\ UNCHANGED ft_faket
       ELSE /\ ft_pc' = "done"
            /\ ft_faket' = IF far_in_the_past(ft_lastmt, ft_now)
                           THEN ft_lastmt ELSE RelativeDate
    /\ UNCHANGED <<ft_faketimes, ft_now, ft_lastmt>>

\* timezone(ctx, build, vary)
timezone(ctx, b, vary) ==
    IF ~vary THEN add_env(b, "TZ", "GMT+12") ELSE add_env(b, "TZ", "GMT-14")

\* umask(ctx, build, vary)
umask(ctx, b, vary) ==
    IF ~vary THEN append_setup(b, <<"umask", "0022">>)
    ELSE append_setup(b, <<"umask", "0002">>)

\* The programs named by @tool_required.
Tools == {"disorderfs", "faketime", "sudo"}

\* The keys of VARIATIONS, in order.
VARIATIONS ==
    <<"environment", "build_path", "user_group", "fileordering", "domain_host",
      "home", "kernel", "locales", "exec_path", "time", "timezone", "umask">>

\* VARIATIONS[name](ctx, build, vary), with the transform's random pick.
Transform(name, ctx, b, vary, pick) ==
    CASE name = "environment" -> environment(ctx, b, vary)
      [] name = "build_path" -> build_path(ctx, b, vary)
      [] name = "user_group" -> user_group(ctx, b, vary, pick)
      [] name = "fileordering" -> fileordering(ctx, b, vary)
      [] name = "domain_host" -> domain_host(ctx, b, vary)
      [] name = "home" -> home(ctx, b, vary)
      [] name = "kernel" -> kernel(ctx, b, vary)
      [] name = "locales" -> locales(ctx, b, vary, pick)
      [] name = "exec_path" -> exec_path(ctx, b, vary)
      [] name = "time" -> faketime(ctx, b, vary, pick)
      [] name = "timezone" -> timezone(ctx, b, vary)
      [] name = "umask" -> umask(ctx, b, vary)

\* What the transform's random.choice can return.
Picks(name, ctx, vary) ==
    IF name = "user_group" /\ vary /\ ctx.spec.available # {}
    THEN ctx.spec.available
    ELSE IF name = "locales" /\ vary THEN Locales
    ELSE IF name = "time" /\ vary THEN FakeTimes
    ELSE {<<>>}

\* VariationSpec.actions(): (k, k in self.__dict__) for k in VARIATIONS
actions_all_vary(sp) == [i \in 1..Len(VARIATIONS) |-> <<VARIATIONS[i], TRUE>>]
actions(sp) ==
    [i \in 1..Len(VARIATIONS) |-> <<VARIATIONS[i], VARIATIONS[i] \in sp.names>>]

\* The context of the transforms: Variations(spec, verbosity).
Ctx == [spec |-> spec, verbosity |-> 0]

\* The unplanned value of build.
NoBuild == [build_command |-> <<>>, setup |-> <<>>, cleanup |-> <<>>,
            env |-> os_environ, tree |-> testbed_src, aux_tree |-> testbed_src]

\* bctx.make_build_commands(...): Build.from_command on testbed_src.
MakeBuildCommands ==
    /\ plan_pc = "start"
    /\ build' = from_command("cd $REPROTEST_BUILD_PATH; build_command",
                             os_environ, testbed_src)
    /\ plan_pc' = "planning"
    /\ plan_i' = 1
    /\ UNCHANGED <<spec, applied, path_tools, warned, ext_token, ext_hist>>

\* One turn of "for v, vary, action in actions: build = action(...)".
ApplyAction ==
    /\ plan_pc = "planning"
    /\ plan_i <= Len(actions(spec))
    /\ LET name == actions(spec)[plan_i][1]
           vary == actions(spec)[plan_i][2]
       IN  /\ applied' = Append(applied, <<name, vary>>)
           /\ IF name = "domain_host" /\ domain_host_raises(Ctx, vary)
              THEN /\ plan_pc' = "error"
                   /\ UNCHANGED <<build, plan_i>>
              ELSE /\ \E pick \in Picks(name, Ctx, vary) :
                         build' = Transform(name, Ctx, build, vary, pick)
                   /\ plan_i' = plan_i + 1
                   /\ plan_pc' = IF plan_i = Len(actions(spec)) THEN "done"
                                 ELSE "planning"
    /\ UNCHANGED <<spec, path_tools, warned, ext_token, ext_hist>>

\* f.tool_required, set by the decorator @tool_required(...); the wrapper
\* wf calls f whatever shutil.which finds.
tool_required(name) ==
    CASE name = "fileordering" -> {"disorderfs"}
      [] name = "time" -> {"faketime"}
      [] name = "user_group" -> {"sudo"}
      [] OTHER -> {}

\* tool_missing(f)
tool_missing(name, found) == tool_required(name) \ found

\* run, for the null virtual server: the list missing of the varied actions
\* that lack a program, each logged as a warning.
WarnMissingPrograms ==
    /\ plan_pc = "warn"
    /\ LET varied == SelectSeq(actions(spec), LAMBDA a : a[2])
           all == [i \in 1..Len(varied) |->
                      <<varied[i][1], tool_missing(varied[i][1], path_tools)>>]
       IN  warned' = SelectSeq(all, LAMBDA m : m[2] # {})
    /\ plan_pc' = "start"
    /\ UNCHANGED <<spec, build, plan_i, applied, path_tools, ext_token, ext_hist>>

\* The variations planned under SpecTools: those that require a program,
\* and one that does not.
ToolNames == {"user_group", "fileordering", "time", "umask"}

\* The configurations of user_group.available: none, another user and
\* group, or another group for the same user; each entry as
\* parse_user_group returns it.
AvailableChoices == {{}, {<<"user2", "group2">>}, {<<"", "group2">>}}

\* The VariationSpecs: which names are keys, and the configuration of the
\* keys that have one (the default where the key is absent).
VariationSpecs(names) ==
    {[names |-> n, variables |-> <<"REPROTEST_CAPTURE_ENVIRONMENT">>,
      available |-> a, use_sudo |-> u] :
        n \in SUBSET names, a \in AvailableChoices, u \in BOOLEAN}

WellFormedSpec(sp) ==
    /\ "user_group" \notin sp.names => sp.available = {}
    /\ "domain_host" \notin sp.names => sp.use_sudo = FALSE

\* BuildContext.plan_variations as a function: the build planned from b by
\* the actions of sp from the i-th on, picks being what random.choice
\* returns in user_group, in locales and in faketime.
RECURSIVE plan_variations(_, _, _, _)
plan_variations(sp, b, i, picks) ==
    IF i > Len(actions(sp)) THEN b
    ELSE LET name == actions(sp)[i][1]
             vary == actions(sp)[i][2]
             ctx == [spec |-> sp, verbosity |-> 0]
             pick == CASE name = "user_group" -> picks.user_group
                       [] name = "locales" -> picks.locales
                       [] name = "time" -> picks.time
                       [] OTHER -> <<>>
         IN  plan_variations(sp, Transform(name, ctx, b, vary, pick), i + 1, picks)

\* The ways for the calls of random.choice to pick during one plan of sp.
PicksOf(sp) ==
    LET ctx == [spec |-> sp, verbosity |-> 0]
    IN  {[user_group |-> u, locales |-> l, time |-> f] :
            u \in Picks("user_group", ctx, "user_group" \in sp.names),
            l \in Picks("locales", ctx, "locales" \in sp.names),
            f \in Picks("time", ctx, "time" \in sp.names)}

\* The add-tokens of the variation DSL: +name for a registered name, and
\* the alias +all.
AddTokens == {<<"+", VARIATIONS[i]>> : i \in 1..Len(VARIATIONS)} \cup {<<"+", "all">>}

\* The effect of the token +name: the variation is enabled with its default
\* configuration (VariationSpec.default(): no user_group.available,
\* domain_host.use_sudo = 0).
toggle_name(sp, name) ==
    [sp EXCEPT !.names = IF name \in @ THEN @ \ {name} ELSE @ \cup {name}]
add_name(sp, name) ==
    [sp EXCEPT !.names = @ \cup {name},
               !.available = IF name = "user_group" THEN {} ELSE @,
               !.use_sudo = IF name = "domain_host" THEN FALSE ELSE @]

\* The alias ("@+-", "all") expands to every key of VARIATIONS.
RECURSIVE add_names(_, _)
add_names(sp, names) ==
    IF names = <<>> THEN sp ELSE add_names(add_name(sp, Head(names)), Tail(names))

\* VariationSpec.extend(actions) for one add-token.
extend(sp, token) ==
    IF token[2] = "all" THEN add_names(sp, VARIATIONS)
    ELSE add_name(sp, token[2])

\* spec = spec.extend(token)
Extend ==
    /\ plan_pc = "extend"
    /\ Len(ext_hist) < 2
    /\ spec' = extend(spec, ext_token)
    /\ ext_hist' = Append(ext_hist, spec')
    /\ UNCHANGED <<build, plan_pc, plan_i, applied, path_tools, warned, ext_token>>

\* The variations of the specs extended under SpecExtend.
ExtendNames == {"environment", "user_group", "domain_host", "home", "time"}

PlanIdle ==
    /\ spec = [names |-> {}, variables |-> <<>>, available |-> {}, use_sudo |-> FALSE]
    /\ build = NoBuild /\ plan_pc = "idle" /\ plan_i = 0 /\ applied = <<>>
    /\ path_tools = {} /\ warned = <<>> /\ ext_token = "" /\ ext_hist = <<>>

(***************************************************************************)
(* The planned script run on the testbed: sh -ec build.to_script(...).     *)
(* run_build is the and-list of build.setup and build.build_command; the   *)
(* commands of build.cleanup are each followed by "|| __c=$?".  The        *)
(* commands act on the directories, files and mounts of the testbed.       *)
(***************************************************************************)

\* The testbed before the script: the copied source tree at testbed_src,
\* owned by the current user.  The tree may have no entries.
InitialFs(empty) ==
    [dirs |-> {PathStr(testbed_src)}, files |-> {}, mounts |-> <<>>,
     tree_at |-> PathStr(testbed_src), tree_empty |-> empty, owner |-> olduser]

\* The names of the files the commands of a Build make.
LeafNames == {"ns-mnt", "ns-uts", "hosts", "disorderfs", "mkdir", "fusermount"}

\* p is an entry of directory d.
Under(p, d) == \E n \in LeafNames : p = d \o "/" \o n

Mounted(f, p) == \E i \in 1..Len(f.mounts) : f.mounts[i] = p

\* The mount table without the latest mount on p.
Unmount(f, p) ==
    LET i == CHOOSE j \in 1..Len(f.mounts) :
                 /\ f.mounts[j] = p
                 /\ \A k \in (j + 1)..Len(f.mounts) : f.mounts[k] # p
    IN  SubSeq(f.mounts, 1, i - 1) \o SubSeq(f.mounts, i + 1, Len(f.mounts))

\* Directory d has no entries.
EmptyDir(f, d) ==
    /\ f.tree_at = d => f.tree_empty
    /\ \A x \in f.files \cup f.dirs : ~Under(x, d)

FsOk(f) == [ok |-> TRUE, fs |-> f]
FsFail(f) == [ok |-> FALSE, fs |-> f]

\* The namespace pins named by the arguments --mount=... --uts=...
NsPins(S, cmd) ==
    {pin \in S \X S : "--mount=" \o pin[1] = cmd[3] /\ "--uts=" \o pin[2] = cmd[4]}

\* The commands that user_group appends and prepends.
ExecUserGroup(f, cmd) ==
    CASE cmd[1] = "sh" /\ cmd[3] = "mkdir -p {0}; printf > {0}/disorderfs {0}/mkdir {0}/fusermount; chmod +x"
            -> FsOk([f EXCEPT !.dirs = @ \cup {cmd[4]},
                              !.files = @ \cup {cmd[4] \o "/disorderfs", cmd[4] \o "/mkdir",
                                               cmd[4] \o "/fusermount"}])
      [] cmd[1] = "sh" /\ cmd[3] = "cd {0} && rm -f disorderfs mkdir fusermount"
            -> IF cmd[4] \in f.dirs
               THEN FsOk([f EXCEPT !.files = @ \ {cmd[4] \o "/disorderfs", cmd[4] \o "/mkdir",
                                                   cmd[4] \o "/fusermount"}])
               ELSE FsFail(f)
      [] cmd[1] = "sudo" /\ cmd[2] = "chown"
            -> IF cmd[7] \in f.dirs
               THEN FsOk([f EXCEPT !.owner = IF cmd[7] = f.tree_at /\ "--from=" \o @ = cmd[5]
                                             THEN cmd[6] ELSE @])
               ELSE FsFail(f)

\* The commands that domain_host appends and prepends (use_sudo).
ExecDomainHost(f, cmd) ==
    CASE cmd[1] = "touch" -> FsOk([f EXCEPT !.files = @ \cup {cmd[2], cmd[3]}])
      [] cmd[1] = "sudo" /\ cmd[2] = "mount" /\ cmd[3] = "-B"
            -> IF cmd[4] \in f.files \cup f.dirs
               THEN FsOk([f EXCEPT !.mounts = Append(@, cmd[5])])
               ELSE FsFail(f)
      [] cmd[1] = "sudo" /\ cmd[2] = "mount" /\ cmd[3] # "-B"
            -> IF Mounted(f, cmd[4]) THEN FsOk(f) ELSE FsFail(f)
      [] cmd[1] = "sudo" /\ cmd[2] = "unshare"
            -> IF NsPins(f.files, cmd) # {}
               THEN LET pin == CHOOSE x \in NsPins(f.files, cmd) : TRUE
                    IN  FsOk([f EXCEPT !.mounts = @ \o <<pin[1], pin[2]>>])
               ELSE FsFail(f)
      \* hostname, domainname and mount -B inside the namespace: the mount
      \* is private to the namespace
      [] cmd[1] = "sudo" /\ cmd[2] = "nsenter"
            -> IF NsPins({f.mounts[i] : i \in 1..Len(f.mounts)}, cmd) # {}
               THEN FsOk(f) ELSE FsFail(f)
      [] cmd[1] = "sh"
            -> IF cmd[4] \in f.dirs
               THEN FsOk([f EXCEPT !.files = @ \cup {cmd[4] \o "/hosts"}])
               ELSE FsFail(f)
      [] cmd[1] = "sudo" /\ cmd[2] = "umount"
            -> IF Mounted(f, cmd[3])
               THEN FsOk([f EXCEPT !.mounts = Unmount(f, cmd[3])])
               ELSE FsFail(f)

\* The effect and the success of one command of build.setup or
\* build.cleanup on the testbed.
Exec(f, cmd) ==
    CASE cmd[1] = "mkdir" -> FsOk([f EXCEPT !.dirs = @ \cup {cmd[3]}])
      [] cmd[1] = "mv"
            -> IF cmd[2] \in f.dirs /\ ~Mounted(f, cmd[2]) /\ cmd[3] \notin f.dirs
               THEN FsOk([f EXCEPT !.dirs = (@ \ {cmd[2]}) \cup {cmd[3]},
                                   !.tree_at = IF @ = cmd[2] THEN cmd[3] ELSE @])
               ELSE FsFail(f)
      [] cmd[1] = "disorderfs"
            -> IF cmd[4] \in f.dirs /\ cmd[5] \in f.dirs
               THEN FsOk([f EXCEPT !.mounts = Append(@, cmd[5])])
               ELSE FsFail(f)
      [] cmd[1] = "fusermount"
            -> IF Mounted(f, cmd[3])
               THEN FsOk([f EXCEPT !.mounts = Unmount(f, cmd[3])])
               ELSE FsFail(f)
      [] cmd[1] = "rmdir"
            -> IF cmd[2] \in f.dirs /\ ~Mounted(f, cmd[2]) /\ EmptyDir(f, cmd[2])
               THEN FsOk([f EXCEPT !.dirs = @ \ {cmd[2]},
                                   !.tree_at = IF @ = cmd[2] THEN "" ELSE @])
               ELSE FsFail(f)
      [] cmd[1] = "rm"
            -> LET busy == {x \in f.files : Under(x, cmd[3]) /\ Mounted(f, x)}
               IN  IF busy = {}
                   THEN FsOk([f EXCEPT !.dirs = {d \in @ : d # cmd[3] /\ ~Under(d, cmd[3])},
                                       !.files = {x \in @ : ~Under(x, cmd[3])},
                                       !.tree_at = IF @ = cmd[3] THEN "" ELSE @])
                   ELSE FsFail([f EXCEPT !.files = {x \in @ : ~Under(x, cmd[3])} \cup busy])
      [] cmd[1] = "sh" /\ cmd[3] # "echo 127.0.0.1 {1} > {0}/hosts && cat /etc/hosts >> {0}/hosts"
            -> ExecUserGroup(f, cmd)
      [] cmd[1] = "sudo" /\ cmd[2] = "chown" -> ExecUserGroup(f, cmd)
      [] cmd[1] = "touch" \/ cmd[1] = "sudo" -> ExecDomainHost(f, cmd)
      [] cmd[1] = "sh" /\ cmd[3] = "echo 127.0.0.1 {1} > {0}/hosts && cat /etc/hosts >> {0}/hosts"
            -> ExecDomainHost(f, cmd)
      \* export, umask: the shell's own state only
      [] OTHER -> FsOk(f)

\* BuildContext.run_build: the Build whose script is run has two exports
\* appended to the setup commands of the planned Build.
new_script ==
    append_setup(append_setup(build, <<"export", "REPROTEST_BUILD_PATH=" \o PathStr(build.tree)>>),
                 <<"export", "REPROTEST_UMASK=$(umask)">>)

\* A command of the and-list run_build succeeds and the next one runs.
ExecSetup ==
    /\ plan_pc = "done"
    /\ run_pc = "setup"
    /\ run_i <= Len(new_script.setup)
    /\ Exec(fs, new_script.setup[run_i]).ok
    /\ fs' = Exec(fs, new_script.setup[run_i]).fs
    /\ run_i' = run_i + 1
    /\ UNCHANGED <<run_pc, failed_at, run_c, cleaned>>

\* A command of the and-list run_build fails (a setup command, or
\* build_command after them): the else branch, where cleanup runs if
\* ( ! no_clean_on_error ).  The failed command has changed nothing.
FailRunBuild ==
    /\ plan_pc = "done"
    /\ run_pc = "setup"
    /\ run_i <= Len(new_script.setup) + 1
    /\ failed_at' = run_i
    /\ IF WhetherToClean(no_clean_on_error)
       THEN run_pc' = "cleanup" /\ run_i' = 1 /\ cleaned' = TRUE
       ELSE run_pc' = "done" /\ UNCHANGED <<run_i, cleaned>>
    /\ UNCHANGED <<fs, run_c>>

\* build_command succeeds after the setup commands: "then ( cleanup )".
ExecBuildCommand ==
    /\ plan_pc = "done"
    /\ run_pc = "setup"
    /\ run_i = Len(new_script.setup) + 1
    /\ run_pc' = "cleanup" /\ run_i' = 1 /\ cleaned' = TRUE
    /\ UNCHANGED <<fs, failed_at, run_c>>

\* One command of cleanup: "<command> || __c=$?".
ExecCleanup ==
    /\ run_pc = "cleanup"
    /\ run_i <= Len(new_script.cleanup)
    /\ fs' = Exec(fs, new_script.cleanup[run_i]).fs
    /\ run_c' = IF Exec(fs, new_script.cleanup[run_i]).ok THEN run_c ELSE 1
    /\ run_i' = run_i + 1
    /\ UNCHANGED <<run_pc, failed_at, cleaned>>

\* "exit $__c" of the cleanup subshell.
FinishCleanup ==
    /\ run_pc = "cleanup"
    /\ run_i = Len(new_script.cleanup) + 1
    /\ run_pc' = "done"
    /\ UNCHANGED <<fs, run_i, failed_at, run_c, cleaned>>

\* The names whose transforms add setup or cleanup commands that depend on
\* vary.
RunNames == {"build_path", "user_group", "fileordering", "domain_host"}

RunIdle ==
    /\ fs = InitialFs(FALSE) /\ run_pc = "idle" /\ run_i = 0
    /\ failed_at = 0 /\ run_c = 0 /\ cleaned = FALSE

(***************************************************************************)
(* __init__.py: run, check and check_auto.  check's verdict and            *)
(* check_auto's search are modelled as functions of what the builds and    *)
(* the diffs give them.                                                    *)
(***************************************************************************)

\* Most experiment builds of check.
MaxExperiments == 3

\* The return codes of the diff program: subprocess gives a negative code
\* when the program is killed by a signal.
DiffCodes == {-1, 0, 1, 2}

\* bnames = ["control"] + ["experiment-%s" % i for i in range(1, len(build_variations))]
bnames(n) == [i \in 1..n |-> IF i = 1 THEN "control" ELSE "experiment-" \o ToString(i - 1)]

\* zip(bnames, local_dists[1:]) pairs bnames[k] with local_dists[k + 1]
zip_names(names, k) == names[k]

\* max(retcodes.values())
MaxCode(rcs) == CHOOSE m \in {rcs[i][2] : i \in 1..Len(rcs)} :
                    \A i \in 1..Len(rcs) : rcs[i][2] <= m

\* run: "return 0 if check_func(*check_args) else 1", "except Exception:
\* return 125".
ExitOf(result) ==
    CASE result = "True" -> 0
      [] result = "False" -> 1
      [] OTHER -> 125

\* run_diff(dist_0, dist_1, diffoscope_args, store_dir), retcode being what
\* the diff program returns: "if retcode == 0: if store_dir:
\* shutil.rmtree(dist_1); os.symlink(os.path.basename(dist_0), dist_1)".
run_diff_links_first(dists, dist_0, dist_1, retcode, store) ==
    IF retcode = 0 /\ store THEN [dists EXCEPT ![dist_0] = "symlink"] ELSE dists
run_diff(dists, dist_0, dist_1, retcode, store) ==
    IF retcode = 0 /\ store THEN [dists EXCEPT ![dist_1] = "symlink"] ELSE dists

\* One element of the generator given to OrderedDict: run_diff of the
\* control's dist and the next dist.
CheckRunDiff ==
    /\ check_func = "check"
    /\ drv_pc = "diff"
    /\ Len(retcodes) < Len(local_dists) - 1
    /\ LET k == Len(retcodes) + 1
       IN  /\ retcodes' = Append(retcodes, <<zip_names(bnames(Len(local_dists)), k),
                                              diff_out[local_dists[k + 1]]>>)
           /\ dist_state' = run_diff(dist_state, local_dists[1], local_dists[k + 1],
                                     diff_out[local_dists[k + 1]], store_dir)
    /\ UNCHANGED <<hashes_emitted, source_pattern, proc_exit, store_dir>>
    /\ UNCHANGED <<check_func, drv_pc, local_dists, diff_out, partial_names,
                   var_x1, oracle, var_cur, unreproducibles, tested, drv_result, drv_exit>>

\* "retcode = max(retcodes.values())" and the three branches on it.
CheckVerdict ==
    /\ check_func = "check"
    /\ drv_pc = "diff"
    /\ Len(retcodes) = Len(local_dists) - 1
    /\ LET retcode == MaxCode(retcodes)
           zeros == SelectSeq(retcodes, LAMBDA e : e[2] = 0)
       IN  /\ partial_names' = IF retcode = 1 /\ zeros # <<>>
                               THEN [i \in 1..Len(zeros) |-> zeros[i][1]]
                               ELSE <<>>
           /\ drv_result' = IF retcode = 0 THEN "True"
                            ELSE IF retcode = 1 THEN "False"
                            ELSE "RuntimeError"
           /\ drv_exit' = ExitOf(drv_result')
           /\ hashes_emitted' = (retcode = 0)
    /\ drv_pc' = "done"
    /\ UNCHANGED <<source_pattern, proc_exit>>
    /\ UNCHANGED <<check_func, local_dists, diff_out, retcodes,
                   var_x1, oracle, var_cur, unreproducibles, tested>>

\* The names check_auto walks over: the first names of the registry.
MaxWalkNames == 3

\* VariationSpec.all_names(): list(VARIATIONS.keys())
all_names == {VARIATIONS[i] : i \in 1..MaxWalkNames}

\* What one call of is_reproducible meets: the build is made and the diff
\* returns 0 ("True") or 1 ("False"), or the build script exits non-zero
\* (check_exec2 raises), or the diff returns another code (check_reproducible
\* raises).
Outcomes == {"True", "False", "build_failed", "diff_error"}

\* The exception that leaves is_reproducible, "none" when it returns.
OutcomeRaises(o) ==
    CASE o = "build_failed" -> "AutopkgtestError"
      [] o = "diff_error" -> "RuntimeError"
      [] OTHER -> "none"

\* var_cur.replace.spec._replace(**{v: var_x1.spec[v]}): a spec is the set of
\* the names it has the full spec's configuration for (var_x0 is
\* VariationSpec.empty()).
spec_replace(cur, v) == cur \cup {v}

\* The return code of the diff program behind each outcome.
RetcodeOf(o) == CASE o = "True" -> 0 [] o = "False" -> 1 [] OTHER -> 2

\* TestArgs.check_reproducible(proc, dist_control, name, var) on the
\* artifact directories: the build of "experiment-<name>" yields its
\* local_dist, then run_diff compares it with the control's.
check_reproducible(dists, name, o, store) ==
    IF o = "build_failed" THEN dists
    ELSE run_diff(dists @@ (("experiment-" \o name) :> "dir"),
                  "control", "experiment-" \o name, RetcodeOf(o), store)

\* The names tested by the walk so far.
Walked == {tested[i].name : i \in 1..Len(tested)} \ {"0", "1"}

\* The driver ends with a result or an exception.
DrvEnds(result) ==
    /\ drv_pc' = "done"
    /\ drv_result' = result
    /\ drv_exit' = ExitOf(result)

\* dist_x0 = proc.send(("control", var_x0))
AutoControl ==
    /\ check_func = "check_auto"
    /\ drv_pc = "control"
    /\ local_dists' = <<"control">>
    /\ dist_state' = ("control" :> "dir")
    /\ drv_pc' = "x0"
    /\ UNCHANGED <<hashes_emitted, source_pattern, proc_exit, store_dir>>
    /\ UNCHANGED <<check_func, diff_out, retcodes, partial_names, var_x1, oracle,
                   var_cur, unreproducibles, tested, drv_result, drv_exit>>

\* if not is_reproducible("0", var_x0): return False
AutoFixed ==
    /\ check_func = "check_auto"
    /\ drv_pc = "x0"
    /\ tested' = Append(tested, [name |-> "0", spec |-> {}])
    /\ dist_state' = check_reproducible(dist_state, "0", oracle["0"], store_dir)
    /\ UNCHANGED store_dir
    /\ IF OutcomeRaises(oracle["0"]) # "none" THEN DrvEnds(OutcomeRaises(oracle["0"]))
       ELSE IF oracle["0"] = "False" THEN DrvEnds("False")
       ELSE /\ drv_pc' = "x1"
            /\ UNCHANGED <<drv_result, drv_exit>>
    /\ UNCHANGED <<hashes_emitted, source_pattern, proc_exit>>
    /\ UNCHANGED <<check_func, local_dists, diff_out, retcodes, partial_names, var_x1,
                   oracle, var_cur, unreproducibles>>

\* if is_reproducible("1", var_x1): return True
AutoFull ==
    /\ check_func = "check_auto"
    /\ drv_pc = "x1"
    /\ tested' = Append(tested, [name |-> "1", spec |-> var_x1])
    /\ dist_state' = check_reproducible(dist_state, "1", oracle["1"], store_dir)
    /\ UNCHANGED store_dir
    /\ IF OutcomeRaises(oracle["1"]) # "none" THEN DrvEnds(OutcomeRaises(oracle["1"]))
       ELSE IF oracle["1"] = "True" THEN DrvEnds("True")
       ELSE /\ drv_pc' = "walk"
            /\ UNCHANGED <<drv_result, drv_exit>>
    /\ UNCHANGED <<hashes_emitted, source_pattern, proc_exit>>
    /\ UNCHANGED <<check_func, local_dists, diff_out, retcodes, partial_names, var_x1,
                   oracle, var_cur, unreproducibles>>

\* "if is_reproducible(v, var_test)": the candidate becomes var_cur.
candidate_always_kept(outcome) == TRUE
candidate_kept(outcome) == outcome = "True"

\* One turn of "for v in varnames", varnames being shuffled: v is any name
\* not yet taken.  var_x1.spec[v] raises KeyError when the full spec has no
\* configuration for v.
AutoWalk ==
    /\ check_func = "check_auto"
    /\ drv_pc = "walk"
    /\ \E v \in all_names \ Walked :
         IF v \notin var_x1
         THEN /\ DrvEnds("KeyError")
              /\ UNCHANGED <<tested, var_cur, unreproducibles, dist_state>>
         ELSE LET var_test == spec_replace(var_cur, v)
              IN  /\ tested' = Append(tested, [name |-> v, spec |-> var_test])
                  /\ dist_state' = check_reproducible(dist_state, v, oracle[v], store_dir)
                  /\ IF OutcomeRaises(oracle[v]) # "none"
                     THEN /\ DrvEnds(OutcomeRaises(oracle[v]))
                          /\ UNCHANGED <<var_cur, unreproducibles>>
                     ELSE IF candidate_kept(oracle[v])
                     THEN /\ var_cur' = var_test
                          /\ UNCHANGED <<unreproducibles, drv_pc, drv_result, drv_exit>>
                     ELSE /\ unreproducibles' = Append(unreproducibles, v)
                          /\ UNCHANGED <<var_cur, drv_pc, drv_result, drv_exit>>
    /\ UNCHANGED <<hashes_emitted, source_pattern, proc_exit, store_dir>>
    /\ UNCHANGED <<check_func, local_dists, diff_out, retcodes, partial_names, var_x1,
                   oracle>>

\* The loop is over: the witnesses are printed and check_auto returns False.
AutoReport ==
    /\ check_func = "check_auto"
    /\ drv_pc = "walk"
    /\ Walked = all_names
    /\ DrvEnds("False")
    /\ UNCHANGED <<hashes_emitted, source_pattern, proc_exit>>
    /\ UNCHANGED <<check_func, local_dists, diff_out, retcodes, partial_names, var_x1,
                   oracle, var_cur, unreproducibles, tested>>

\* The name of the build the driver sends first: bnames[0] in check, the
\* control in check_auto.
FirstBuild == IF check_func = "check" THEN bnames(1)[1] ELSE "control"

\* run calls check_func, which calls corun_builds: the coroutine runs up to
\* its first yield.  An exception leaves check_func and run returns 125.
MainPrime ==
    /\ drv_pc = "start"
    /\ Prime
    /\ IF gen' = "finished"
       THEN DrvEnds(raised')
       ELSE /\ drv_pc' = "send"
            /\ UNCHANGED <<drv_result, drv_exit>>
    /\ UNCHANGED <<hashes_emitted, source_pattern, proc_exit>>
    /\ UNCHANGED <<check_func, local_dists, diff_out, retcodes, partial_names, var_x1,
                   oracle, var_cur, unreproducibles, tested>>

\* The first proc.send of check_func.  When it raises, the exception leaves
\* check_func and run returns 125; when it yields, the driver has the
\* control's dist and goes on with the experiments.
MainSend ==
    /\ drv_pc = "send"
    /\ Send
    /\ sent'[Len(sent')].name = FirstBuild
    /\ IF gen' = "finished"
       THEN /\ DrvEnds(raised')
            /\ UNCHANGED local_dists
       ELSE /\ local_dists' = Append(local_dists, FirstBuild)
            /\ drv_pc' = "x0"
            /\ UNCHANGED <<drv_result, drv_exit>>
    /\ UNCHANGED <<hashes_emitted, source_pattern, proc_exit>>
    /\ UNCHANGED <<check_func, diff_out, retcodes, partial_names, var_x1,
                   oracle, var_cur, unreproducibles, tested>>

\* Longest pattern given to run.
MaxArgLen == 2

\* The --artifact-pattern and --source-pattern arguments.
ArgPatterns == {sn \in Snippets : Len(sn) <= MaxArgLen} \cup AbsolutePatterns
SourcePatterns == {None} \cup {sn \in Snippets : Len(sn) <= 1}

\* The exit status of the process when an exception leaves run and main.
UncaughtExit == 1

\* run: "if not artifact_pattern: ... sys.exit(2)", then TestArgs.of calls
\* sanitize_globs(artifact_pattern).
RunArtifactGiven ==
    /\ drv_pc = "args"
    /\ IF s = <<>>
       THEN /\ proc_exit' = 2
            /\ drv_pc' = "done"
            /\ UNCHANGED san_result
       ELSE /\ san_result' = "running"
            /\ drv_pc' = "artifact"
            /\ UNCHANGED proc_exit
    /\ UNCHANGED <<s, pos, in_quote, escaped, cw, words, san_out, forcerel>>
    /\ UNCHANGED <<check_func, local_dists, diff_out, retcodes, partial_names, var_x1,
                   oracle, var_cur, unreproducibles, tested, drv_result, drv_exit,
                   hashes_emitted, source_pattern>>

\* TestArgs.of after a call of sanitize_globs: its ValueError is caught
\* neither by TestArgs.of nor by run, whose try holds only the call of
\* check_func; "if source_pattern" then sanitizes the source pattern.
TestArgsOf ==
    /\ drv_pc \in {"artifact", "source"}
    /\ san_result \in {"accepted", "rejected"}
    /\ IF san_result = "rejected"
       THEN /\ drv_result' = "ValueError"
            /\ proc_exit' = UncaughtExit
            /\ drv_pc' = "done"
            /\ UNCHANGED sanVars
       ELSE IF drv_pc = "artifact" /\ source_pattern \notin {None, <<>>}
       THEN /\ s' = source_pattern
            /\ pos' = 0 /\ in_quote' = "False" /\ escaped' = FALSE
            /\ cw' = None /\ words' = <<>> /\ san_result' = "running" /\ san_out' = <<>>
            /\ UNCHANGED forcerel
            /\ drv_pc' = "source"
            /\ UNCHANGED <<drv_result, proc_exit>>
       ELSE /\ drv_pc' = "start"
            /\ UNCHANGED <<sanVars, drv_result, proc_exit>>
    /\ UNCHANGED <<check_func, local_dists, diff_out, retcodes, partial_names, var_x1,
                   oracle, var_cur, unreproducibles, tested, drv_exit,
                   hashes_emitted, source_pattern>>

DrvIdle ==
    /\ check_func = "none" /\ drv_pc = "idle" /\ local_dists = <<>> /\ diff_out = <<>>
    /\ retcodes = <<>> /\ partial_names = <<>> /\ var_x1 = {} /\ oracle = <<>>
    /\ var_cur = {} /\ unreproducibles = <<>> /\ tested = <<>>
    /\ drv_result = "none" /\ drv_exit = -1
    /\ hashes_emitted = FALSE /\ source_pattern = None /\ proc_exit = -1

InitSan ==
    /\ StIdle
    /\ FtIdle
    /\ UgIdle
    /\ SigIdle
    /\ s \in Snippets \cup AbsolutePatterns
    /\ pos = 0 /\ in_quote = "False" /\ escaped = FALSE
    /\ cw = None /\ words = <<>> /\ san_result = "running" /\ san_out = <<>>
    /\ forcerel = TRUE
    /\ no_clean_on_error = FALSE
    /\ ShIdle
    /\ TbIdle
    /\ PlanIdle
    /\ RunIdle
    /\ DrvIdle

NextSan ==
    \/ SanChar /\ UNCHANGED <<no_clean_on_error, stVars, ftVars, ugVars, sigVars, shVars, tbVars, planVars, runVars, drvVars>>
    \/ SanEnd /\ UNCHANGED <<no_clean_on_error, stVars, ftVars, ugVars, sigVars, shVars, tbVars, planVars, runVars, drvVars>>

SpecSan == InitSan /\ [][NextSan]_vars

\* sanitize_globs called with either value of forcerel.
InitSanWords ==
    /\ StIdle
    /\ FtIdle
    /\ UgIdle
    /\ SigIdle
    /\ s \in Snippets
    /\ pos = 0 /\ in_quote = "False" /\ escaped = FALSE
    /\ cw = None /\ words = <<>> /\ san_result = "running" /\ san_out = <<>>
    /\ forcerel \in BOOLEAN
    /\ no_clean_on_error = FALSE
    /\ ShIdle
    /\ TbIdle
    /\ PlanIdle
    /\ RunIdle
    /\ DrvIdle

SpecSanWords == InitSanWords /\ [][NextSan]_vars

InitScript ==
    /\ StIdle
    /\ FtIdle
    /\ UgIdle
    /\ SigIdle
    /\ SanIdle
    /\ no_clean_on_error \in BOOLEAN
    /\ setup_rc \in SeqsUpTo(ExitCodes, MaxSetup)
    /\ build_rc \in ExitCodes
    /\ cleanup_rc \in SeqsUpTo(ExitCodes, MaxCleanup)
    /\ sh_pc = "start" /\ sh_i = 1 /\ sh_status = 0 /\ sh_x = 0 /\ sh_c = 0
    /\ cleanup_calls = 0 /\ cleanup_done = 0 /\ build_ran = FALSE
    /\ exit_status = -1
    /\ TbIdle
    /\ PlanIdle
    /\ RunIdle
    /\ DrvIdle

NextScript ==
    \/ ShStart /\ UNCHANGED <<sanVars, no_clean_on_error, stVars, ftVars, ugVars, sigVars, tbVars, planVars, runVars, drvVars>>
    \/ RunSetupCmd /\ UNCHANGED <<sanVars, no_clean_on_error, stVars, ftVars, ugVars, sigVars, tbVars, planVars, runVars, drvVars>>
    \/ RunBuildCommand /\ UNCHANGED <<sanVars, no_clean_on_error, stVars, ftVars, ugVars, sigVars, tbVars, planVars, runVars, drvVars>>
    \/ ElseBranch /\ UNCHANGED <<sanVars, no_clean_on_error, stVars, ftVars, ugVars, sigVars, tbVars, planVars, runVars, drvVars>>
    \/ CleanupCmd /\ UNCHANGED <<sanVars, no_clean_on_error, stVars, ftVars, ugVars, sigVars, tbVars, planVars, runVars, drvVars>>
    \/ CleanupExit /\ UNCHANGED <<sanVars, no_clean_on_error, stVars, ftVars, ugVars, sigVars, tbVars, planVars, runVars, drvVars>>
    \/ ExitX /\ UNCHANGED <<sanVars, no_clean_on_error, stVars, ftVars, ugVars, sigVars, tbVars, planVars, runVars, drvVars>>

SpecScript == InitScript /\ [][NextScript]_vars

\* The script with the cleanup function, and signals reaching the shell.
InitSignal ==
    /\ InitScript
    /\ cleanup_rc # <<>>

\* A pending action runs before the shell starts its next command.
TrapFirst == sig_pending /\ sh_pc \in {"else", "exit_x"}

NextSignal ==
    \/ ~TrapFirst /\ NextScript
    \/ SignalDelivered /\ UNCHANGED <<sanVars, no_clean_on_error, stVars, ftVars, ugVars, tbVars, planVars, runVars, drvVars>>
    \/ TrapAction /\ UNCHANGED <<sanVars, no_clean_on_error, stVars, ftVars, ugVars, tbVars, planVars, runVars, drvVars>>

SpecSignal == InitSignal /\ [][NextSignal]_vars

InitChoice ==
    /\ StIdle
    /\ FtIdle
    /\ SanIdle
    /\ ShIdle
    /\ TbIdle
    /\ PlanIdle
    /\ RunIdle
    /\ DrvIdle
    /\ SigIdle
    /\ no_clean_on_error = FALSE
    /\ ug_available \in SUBSET UserGroupStrings
    /\ ug_pc = "start" /\ ug_choice = <<>> /\ ug_parsed = <<>>

NextChoice ==
    \/ ChooseUserGroup /\ UNCHANGED <<sanVars, no_clean_on_error, stVars, ftVars, sigVars, shVars, tbVars, planVars, runVars, drvVars>>
    \/ ParseUserGroup /\ UNCHANGED <<sanVars, no_clean_on_error, stVars, ftVars, sigVars, shVars, tbVars, planVars, runVars, drvVars>>

SpecChoice == InitChoice /\ [][NextChoice]_vars

InitFaketime ==
    /\ StIdle
    /\ SanIdle
    /\ ShIdle
    /\ TbIdle
    /\ PlanIdle
    /\ RunIdle
    /\ DrvIdle
    /\ SigIdle
    /\ UgIdle
    /\ no_clean_on_error = FALSE
    /\ ft_faketimes \in SUBSET FaketimeEntries
    /\ ft_now \in Nows
    /\ ft_pc = "start" /\ ft_lastmt = <<>> /\ ft_faket = <<>>

NextFaketime ==
    \/ ChooseFaketime /\ UNCHANGED <<sanVars, no_clean_on_error, stVars, ugVars, sigVars, shVars, tbVars, planVars, runVars, drvVars>>
    \/ DecideFaketime /\ UNCHANGED <<sanVars, no_clean_on_error, stVars, ugVars, sigVars, shVars, tbVars, planVars, runVars, drvVars>>

SpecFaketime == InitFaketime /\ [][NextFaketime]_vars

InitTestbed ==
    /\ StIdle
    /\ FtIdle
    /\ UgIdle
    /\ SigIdle
    /\ SanIdle
    /\ ShIdle
    /\ no_clean_on_error \in BOOLEAN
    /\ testbed_pre \in BOOLEAN
    /\ testbed_init \in BOOLEAN
    /\ gen = "unprimed"
    /\ testbed_started = FALSE /\ testbed_open = FALSE /\ should_clean = FALSE
    /\ stop_calls = 0 /\ raised = "none" /\ names_seen = {} /\ ops = <<>>
    /\ sent = <<>> /\ raised_step = "none"
    /\ PlanIdle
    /\ RunIdle
    /\ DrvIdle

NextTestbed ==
    \/ Prime /\ UNCHANGED <<sanVars, no_clean_on_error, stVars, ftVars, ugVars, sigVars, shVars, planVars, runVars, drvVars>>
    \/ Send /\ UNCHANGED <<sanVars, no_clean_on_error, stVars, ftVars, ugVars, sigVars, shVars, planVars, runVars, drvVars>>
    \/ SendEmpty /\ UNCHANGED <<sanVars, no_clean_on_error, stVars, ftVars, ugVars, sigVars, shVars, planVars, runVars, drvVars>>
    \/ Close /\ UNCHANGED <<sanVars, no_clean_on_error, stVars, ftVars, ugVars, sigVars, shVars, planVars, runVars, drvVars>>

SpecTestbed == InitTestbed /\ [][NextTestbed]_vars

NextLoop ==
    \/ Prime /\ UNCHANGED <<sanVars, no_clean_on_error, stVars, ftVars, ugVars, sigVars, shVars, planVars, runVars, drvVars>>
    \/ LoopSend /\ UNCHANGED <<sanVars, no_clean_on_error, stVars, ftVars, ugVars, sigVars, shVars, planVars, runVars, drvVars>>
    \/ SendEmpty /\ UNCHANGED <<sanVars, no_clean_on_error, stVars, ftVars, ugVars, sigVars, shVars, planVars, runVars, drvVars>>
    \/ Close /\ UNCHANGED <<sanVars, no_clean_on_error, stVars, ftVars, ugVars, sigVars, shVars, planVars, runVars, drvVars>>

SpecLoop == InitTestbed /\ [][NextLoop]_vars

InitPlan ==
    /\ StIdle
    /\ FtIdle
    /\ UgIdle
    /\ SigIdle
    /\ SanIdle
    /\ ShIdle
    /\ TbIdle
    /\ no_clean_on_error = FALSE
    /\ spec \in {sp \in VariationSpecs({VARIATIONS[i] : i \in 1..Len(VARIATIONS)}) :
                    WellFormedSpec(sp)}
    /\ build = NoBuild /\ plan_pc = "start" /\ plan_i = 0 /\ applied = <<>>
    /\ path_tools = Tools /\ warned = <<>> /\ ext_token = "" /\ ext_hist = <<>>
    /\ RunIdle
    /\ DrvIdle

NextPlan ==
    \/ MakeBuildCommands /\ UNCHANGED <<sanVars, no_clean_on_error, stVars, ftVars, ugVars, sigVars, shVars, tbVars, runVars, drvVars>>
    \/ ApplyAction /\ UNCHANGED <<sanVars, no_clean_on_error, stVars, ftVars, ugVars, sigVars, shVars, tbVars, runVars, drvVars>>

SpecPlan == InitPlan /\ [][NextPlan]_vars

InitTools ==
    /\ StIdle
    /\ FtIdle
    /\ UgIdle
    /\ SigIdle
    /\ SanIdle
    /\ ShIdle
    /\ TbIdle
    /\ no_clean_on_error = FALSE
    /\ spec \in {sp \in VariationSpecs(ToolNames) : WellFormedSpec(sp)}
    /\ build = NoBuild /\ plan_pc = "warn" /\ plan_i = 0 /\ applied = <<>>
    /\ path_tools \in SUBSET Tools
    /\ warned = <<>> /\ ext_token = "" /\ ext_hist = <<>>
    /\ RunIdle
    /\ DrvIdle

NextTools ==
    \/ WarnMissingPrograms /\ UNCHANGED <<sanVars, no_clean_on_error, stVars, ftVars, ugVars, sigVars, shVars, tbVars, runVars, drvVars>>
    \/ MakeBuildCommands /\ UNCHANGED <<sanVars, no_clean_on_error, stVars, ftVars, ugVars, sigVars, shVars, tbVars, runVars, drvVars>>
    \/ ApplyAction /\ UNCHANGED <<sanVars, no_clean_on_error, stVars, ftVars, ugVars, sigVars, shVars, tbVars, runVars, drvVars>>

SpecTools == InitTools /\ [][NextTools]_vars

InitExtend ==
    /\ StIdle
    /\ FtIdle
    /\ UgIdle
    /\ SigIdle
    /\ SanIdle
    /\ ShIdle
    /\ TbIdle
    /\ no_clean_on_error = FALSE
    /\ spec \in {sp \in VariationSpecs(ExtendNames) : WellFormedSpec(sp)}
    /\ ext_token \in AddTokens
    /\ build = NoBuild /\ plan_pc = "extend" /\ plan_i = 0 /\ applied = <<>>
    /\ path_tools = {} /\ warned = <<>> /\ ext_hist = <<>>
    /\ RunIdle
    /\ DrvIdle

NextExtend ==
    Extend /\ UNCHANGED <<sanVars, no_clean_on_error, stVars, ftVars, ugVars, sigVars, shVars, tbVars, runVars, drvVars>>

SpecExtend == InitExtend /\ [][NextExtend]_vars

InitRun ==
    /\ StIdle
    /\ FtIdle
    /\ UgIdle
    /\ SigIdle
    /\ SanIdle
    /\ ShIdle
    /\ TbIdle
    /\ no_clean_on_error \in BOOLEAN
    /\ spec \in {sp \in VariationSpecs(RunNames) : WellFormedSpec(sp)}
    /\ build = NoBuild /\ plan_pc = "start" /\ plan_i = 0 /\ applied = <<>>
    /\ path_tools = Tools /\ warned = <<>> /\ ext_token = "" /\ ext_hist = <<>>
    /\ fs \in {InitialFs(e) : e \in BOOLEAN}
    /\ run_pc = "setup" /\ run_i = 1
    /\ failed_at = 0 /\ run_c = 0 /\ cleaned = FALSE
    /\ DrvIdle

NextRun ==
    \/ MakeBuildCommands /\ UNCHANGED <<sanVars, no_clean_on_error, stVars, ftVars, ugVars, sigVars, shVars, tbVars, runVars, drvVars>>
    \/ ApplyAction /\ UNCHANGED <<sanVars, no_clean_on_error, stVars, ftVars, ugVars, sigVars, shVars, tbVars, runVars, drvVars>>
    \/ ExecSetup /\ UNCHANGED <<sanVars, no_clean_on_error, stVars, ftVars, ugVars, sigVars, shVars, tbVars, planVars, drvVars>>
    \/ FailRunBuild /\ UNCHANGED <<sanVars, no_clean_on_error, stVars, ftVars, ugVars, sigVars, shVars, tbVars, planVars, drvVars>>
    \/ ExecBuildCommand /\ UNCHANGED <<sanVars, no_clean_on_error, stVars, ftVars, ugVars, sigVars, shVars, tbVars, planVars, drvVars>>
    \/ ExecCleanup /\ UNCHANGED <<sanVars, no_clean_on_error, stVars, ftVars, ugVars, sigVars, shVars, tbVars, planVars, drvVars>>
    \/ FinishCleanup /\ UNCHANGED <<sanVars, no_clean_on_error, stVars, ftVars, ugVars, sigVars, shVars, tbVars, planVars, drvVars>>

SpecRun == InitRun /\ [][NextRun]_vars

InitVerdict ==
    /\ FtIdle
    /\ UgIdle
    /\ SigIdle
    /\ SanIdle
    /\ ShIdle
    /\ TbIdle
    /\ PlanIdle
    /\ RunIdle
    /\ no_clean_on_error = FALSE
    /\ check_func = "check" /\ drv_pc = "diff"
    /\ \E n \in 2..(MaxExperiments + 1) :
          /\ local_dists = bnames(n)
          /\ diff_out \in [{bnames(n)[i] : i \in 2..n} -> DiffCodes]
    /\ retcodes = <<>> /\ partial_names = <<>> /\ var_x1 = {} /\ oracle = <<>>
    /\ var_cur = {} /\ unreproducibles = <<>> /\ tested = <<>>
    /\ drv_result = "none" /\ drv_exit = -1
    /\ hashes_emitted = FALSE /\ source_pattern = None /\ proc_exit = -1
    /\ store_dir \in BOOLEAN
    /\ dist_state = [n \in {local_dists[i] : i \in 1..Len(local_dists)} |-> "dir"]

NextVerdict ==
    \/ CheckRunDiff /\ UNCHANGED <<sanVars, no_clean_on_error, ftVars, ugVars, sigVars, shVars, tbVars, planVars, runVars>>
    \/ CheckVerdict /\ UNCHANGED <<sanVars, no_clean_on_error, stVars, ftVars, ugVars, sigVars, shVars, tbVars, planVars, runVars>>

SpecVerdict == InitVerdict /\ [][NextVerdict]_vars

InitAuto ==
    /\ store_dir \in BOOLEAN
    /\ dist_state = <<>>
    /\ FtIdle
    /\ UgIdle
    /\ SigIdle
    /\ SanIdle
    /\ ShIdle
    /\ TbIdle
    /\ PlanIdle
    /\ RunIdle
    /\ no_clean_on_error = FALSE
    /\ check_func = "check_auto" /\ drv_pc = "control"
    /\ var_x1 \in SUBSET all_names
    /\ oracle \in [{"0", "1"} \cup all_names -> Outcomes]
    /\ local_dists = <<>> /\ diff_out = <<>> /\ retcodes = <<>> /\ partial_names = <<>>
    /\ var_cur = {} /\ unreproducibles = <<>> /\ tested = <<>>
    /\ drv_result = "none" /\ drv_exit = -1
    /\ hashes_emitted = FALSE /\ source_pattern = None /\ proc_exit = -1

NextAuto ==
    \/ AutoControl /\ UNCHANGED <<sanVars, no_clean_on_error, ftVars, ugVars, sigVars, shVars, tbVars, planVars, runVars>>
    \/ AutoFixed /\ UNCHANGED <<sanVars, no_clean_on_error, ftVars, ugVars, sigVars, shVars, tbVars, planVars, runVars>>
    \/ AutoFull /\ UNCHANGED <<sanVars, no_clean_on_error, ftVars, ugVars, sigVars, shVars, tbVars, planVars, runVars>>
    \/ AutoWalk /\ UNCHANGED <<sanVars, no_clean_on_error, ftVars, ugVars, sigVars, shVars, tbVars, planVars, runVars>>
    \/ AutoReport /\ UNCHANGED <<sanVars, no_clean_on_error, stVars, ftVars, ugVars, sigVars, shVars, tbVars, planVars, runVars>>

SpecAuto == InitAuto /\ [][NextAuto]_vars

\* check and check_auto, each on its own inputs.
InitStore == InitVerdict \/ InitAuto

NextStore == NextVerdict \/ NextAuto

SpecStore == InitStore /\ [][NextStore]_vars

InitMain ==
    /\ StIdle
    /\ FtIdle
    /\ UgIdle
    /\ SigIdle
    /\ SanIdle
    /\ ShIdle
    /\ PlanIdle
    /\ RunIdle
    /\ no_clean_on_error \in BOOLEAN
    /\ testbed_pre \in BOOLEAN
    /\ testbed_init \in BOOLEAN
    /\ gen = "unprimed"
    /\ testbed_started = FALSE /\ testbed_open = FALSE /\ should_clean = FALSE
    /\ stop_calls = 0 /\ raised = "none" /\ names_seen = {} /\ ops = <<>>
    /\ sent = <<>> /\ raised_step = "none"
    /\ drv_pc = "start"
    /\ \/ /\ check_func = "check"
          /\ \E n \in 2..(MaxExperiments + 1) :
                diff_out \in [{bnames(n)[i] : i \in 2..n} -> DiffCodes]
          /\ var_x1 = {} /\ oracle = <<>>
       \/ /\ check_func = "check_auto"
          /\ var_x1 \in SUBSET all_names
          /\ oracle \in [{"0", "1"} -> Outcomes]
          /\ diff_out = <<>>
    /\ local_dists = <<>> /\ retcodes = <<>> /\ partial_names = <<>>
    /\ var_cur = {} /\ unreproducibles = <<>> /\ tested = <<>>
    /\ drv_result = "none" /\ drv_exit = -1
    /\ hashes_emitted = FALSE /\ source_pattern = None /\ proc_exit = -1

NextMain ==
    \/ MainPrime /\ UNCHANGED <<sanVars, no_clean_on_error, stVars, ftVars, ugVars, sigVars, shVars, planVars, runVars>>
    \/ MainSend /\ UNCHANGED <<sanVars, no_clean_on_error, stVars, ftVars, ugVars, sigVars, shVars, planVars, runVars>>

SpecMain == InitMain /\ [][NextMain]_vars

InitArgs ==
    /\ StIdle
    /\ FtIdle
    /\ UgIdle
    /\ SigIdle
    /\ s \in ArgPatterns
    /\ pos = 0 /\ in_quote = "False" /\ escaped = FALSE
    /\ cw = None /\ words = <<>> /\ san_result = "idle" /\ san_out = <<>>
    /\ forcerel = TRUE
    /\ ShIdle
    /\ PlanIdle
    /\ RunIdle
    /\ no_clean_on_error = FALSE
    /\ source_pattern \in SourcePatterns
    /\ testbed_pre = (source_pattern \notin {None, <<>>})
    /\ testbed_init = FALSE
    /\ gen = "unprimed"
    /\ testbed_started = FALSE /\ testbed_open = FALSE /\ should_clean = FALSE
    /\ stop_calls = 0 /\ raised = "none" /\ names_seen = {} /\ ops = <<>>
    /\ sent = <<>> /\ raised_step = "none"
    /\ check_func = "check" /\ drv_pc = "args"
    /\ local_dists = <<>> /\ diff_out = <<>> /\ retcodes = <<>> /\ partial_names = <<>>
    /\ var_x1 = {} /\ oracle = <<>> /\ var_cur = {} /\ unreproducibles = <<>>
    /\ tested = <<>> /\ drv_result = "none" /\ drv_exit = -1
    /\ hashes_emitted = FALSE /\ proc_exit = -1

NextArgs ==
    \/ RunArtifactGiven /\ UNCHANGED <<no_clean_on_error, stVars, ftVars, ugVars, sigVars, shVars, tbVars, planVars, runVars>>
    \/ SanChar /\ UNCHANGED <<no_clean_on_error, stVars, ftVars, ugVars, sigVars, shVars, tbVars, planVars, runVars, drvVars>>
    \/ SanEnd /\ UNCHANGED <<no_clean_on_error, stVars, ftVars, ugVars, sigVars, shVars, tbVars, planVars, runVars, drvVars>>
    \/ TestArgsOf /\ UNCHANGED <<no_clean_on_error, stVars, ftVars, ugVars, sigVars, shVars, tbVars, planVars, runVars>>
    \/ MainPrime /\ UNCHANGED <<sanVars, no_clean_on_error, stVars, ftVars, ugVars, sigVars, shVars, planVars, runVars>>

SpecArgs == InitArgs /\ [][NextArgs]_vars

(***************************************************************************)
(* Properties of the script of Build.to_script (under SpecScript)          *)
(***************************************************************************)

\* The exit status of the and-list setup && build_command, from the statuses
\* of its commands: that of the first command that fails, else 0.
RECURSIVE FirstFailure(_)
FirstFailure(rcs) ==
    IF rcs = <<>> THEN 0
    ELSE IF Head(rcs) # 0 THEN Head(rcs)
    ELSE FirstFailure(Tail(rcs))

RunBuildStatus == FirstFailure(Append(setup_rc, build_rc))

\* The status of the last cleanup command that fails, else 0.
RECURSIVE LastFailure(_)
LastFailure(rcs) ==
    IF rcs = <<>> THEN 0
    ELSE IF rcs[Len(rcs)] # 0 THEN rcs[Len(rcs)]
    ELSE LastFailure(SubSeq(rcs, 1, Len(rcs) - 1))

ExpectedCleanupCalls ==
    IF RunBuildStatus = 0 THEN 1
    ELSE IF no_clean_on_error THEN 0 ELSE 1

\* C1: with a non-empty cleanup list, when the script has ended the function
\* cleanup was called once if setup and build_command succeeded; if one of
\* them failed, once when no_clean_on_error is false and never when it is
\* true; each call runs every cleanup command once.  It is never called
\* more often on the way.
C1_CleanupExactlyOnce ==
    /\ (sh_pc = "done" /\ cleanup_rc # <<>>) =>
          /\ cleanup_calls = ExpectedCleanupCalls
          /\ cleanup_done = ExpectedCleanupCalls * Len(cleanup_rc)
    /\ cleanup_calls <= 1

\* A failed build with no_clean_on_error set has ended without any cleanup.
C1_Witness ==
    /\ sh_pc = "done" /\ cleanup_rc # <<>> /\ no_clean_on_error
    /\ RunBuildStatus # 0 /\ Len(setup_rc) = MaxSetup /\ cleanup_calls = 0

\* C2 (as claimed): the script's exit status is the exit status of
\* run_build in every case, also when a cleanup command fails.
C2_ExitIsRunBuildStatus ==
    sh_pc = "done" => exit_status = RunBuildStatus

\* C2 (amended): the script's exit status is the exit status of run_build
\* whenever run_build fails; when run_build succeeds it is the status of the
\* cleanup subshell, that is the status of the last cleanup command that
\* failed, and 0 when none failed or the cleanup list is empty.
C2_ExitStatus ==
    sh_pc = "done" =>
        exit_status = IF RunBuildStatus # 0 THEN RunBuildStatus
                      ELSE LastFailure(cleanup_rc)

\* A build that succeeded, and two cleanup commands that failed with
\* different statuses: the script exits with the status of the second.
C2_Witness ==
    /\ sh_pc = "done" /\ RunBuildStatus = 0 /\ build_ran
    /\ Len(cleanup_rc) = 2 /\ cleanup_rc[1] = 1 /\ cleanup_rc[2] = 2
    /\ exit_status = 2

(***************************************************************************)
(* Properties of sanitize_globs (under SpecSan)                            *)
(***************************************************************************)

\* Shell quoting as POSIX defines it (XCU 2.2), independently of the
\* scanner: the quoting in force after the first n characters of str.  q is
\* the open quote, esc says that the next character is escaped by a
\* backslash.  Inside double quotes a backslash escapes only $ ` " \ and
\* newline.
RECURSIVE PosixCtx(_, _)
PosixCtx(str, n) ==
    IF n = 0 THEN [q |-> "none", esc |-> FALSE]
    ELSE LET p == PosixCtx(str, n - 1)
             c == str[n]
         IN  IF p.esc THEN [p EXCEPT !.esc = FALSE]
             ELSE IF p.q = "none"
             THEN IF c = "\\" THEN [p EXCEPT !.esc = TRUE]
                  ELSE IF c = "'" THEN [p EXCEPT !.q = "single"]
                  ELSE IF c = "\"" THEN [p EXCEPT !.q = "double"]
                  ELSE p
             ELSE IF p.q = "single"
             THEN IF c = "'" THEN [p EXCEPT !.q = "none"] ELSE p
             ELSE IF /\ c = "\\"
                     /\ n < Len(str)
                     /\ str[n + 1] \in {"$", Backtick, "\"", "\\", "\n"}
                  THEN [p EXCEPT !.esc = TRUE]
                  ELSE IF c = "\"" THEN [p EXCEPT !.q = "none"]
                  ELSE p

\* The characters C9 names.
ShellSpecial == {"|", "&", ";", "<", ">", "(", ")", "$", Backtick}

\* Character i of str is outside quotes and not escaped by a backslash.
Bare(str, i) ==
    LET p == PosixCtx(str, i - 1) IN p.q = "none" /\ ~p.esc

\* Character i of str is inside a double-quoted span.
InDouble(str, i) == PosixCtx(str, i - 1).q = "double"

\* Character i of str is escaped by a backslash.
Escaped(str, i) == PosixCtx(str, i - 1).esc

SanFinished == san_result \in {"accepted", "rejected"}

\* C9: an input in which one of | & ; < > ( ) $ ` occurs outside quotes and
\* unescaped is rejected; so in an accepted input every such character is
\* quoted or escaped.
C9_BareSpecialRejected ==
    (/\ SanFinished
     /\ \E i \in 1..Len(s) : s[i] \in ShellSpecial /\ Bare(s, i))
        => san_result = "rejected"

\* An input rejected for a bare special character that follows a protected
\* one.
C9_Witness ==
    /\ san_result = "rejected"
    /\ \E i \in 1..Len(s) :
          /\ s[i] \in ShellSpecial /\ Bare(s, i)
          /\ \E j \in 1..(i - 1) : s[j] \in ShellSpecial /\ ~Bare(s, j)

\* C10 (as claimed): an accepted input has no $ and no backtick inside a
\* double-quoted span.
C10_NoDollarInDouble ==
    san_result = "accepted" =>
        \A i \in 1..Len(s) : s[i] \in {"$", Backtick} => ~InDouble(s, i)

\* C10 (amended): an input with a $ or a backtick inside a double-quoted
\* span that is not escaped by a backslash is rejected; an accepted input
\* can hold them inside double quotes only backslash-escaped.
C10_UnescapedDollarInDoubleRejected ==
    (/\ SanFinished
     /\ \E i \in 1..Len(s) :
           s[i] \in {"$", Backtick} /\ InDouble(s, i) /\ ~Escaped(s, i))
        => san_result = "rejected"

\* An input rejected for an unescaped $ or backtick in double quotes that
\* follows an escaped one.
C10_Witness ==
    /\ san_result = "rejected"
    /\ \E i \in 1..Len(s) :
          /\ s[i] \in {"$", Backtick} /\ InDouble(s, i) /\ ~Escaped(s, i)
          /\ \E j \in 1..(i - 1) :
                s[j] \in {"$", Backtick} /\ InDouble(s, j) /\ Escaped(s, j)

\* The input ends inside a quoted span or directly after an escaping
\* backslash.
Unclosed(str) ==
    LET p == PosixCtx(str, Len(str)) IN p.q # "none" \/ p.esc

\* C11: an input that ends inside an open single- or double-quoted span or
\* directly after an escaping backslash is rejected; when an input is
\* accepted the scanner is in the unquoted, unescaped state.
C11_UnclosedRejected ==
    /\ (SanFinished /\ Unclosed(s)) => san_result = "rejected"
    /\ san_result = "accepted" => (in_quote = "False" /\ ~escaped /\ pos = Len(s))

\* An input without special characters that ends after a backslash and is
\* rejected at the end of the scan.
C11_Witness ==
    /\ san_result = "rejected"
    /\ pos = Len(s)
    /\ s = <<"a", " ", "a", "\\">>
    /\ in_quote = "False" /\ escaped

\* C12: the pattern /etc/*, bare or in single quotes, is rejected.
C12_AbsolutePatternRejected ==
    (SanFinished /\ s \in AbsolutePatterns) => san_result = "rejected"

(***************************************************************************)
(* Properties of start_testbed and corun_builds (under SpecTestbed)        *)
(***************************************************************************)

\* An error was observed: the coroutine ended with an exception other than
\* the GeneratorExit of a driver that closes or drops it.
ErrorObserved == raised \notin {"none", "GeneratorExit"}

\* C3: once the testbed is started and open, however the coroutine ends
\* (an empty send, the driver closing or dropping it, an exception in a
\* build), testbed.stop() has been called exactly once, except that it is
\* not called when no_clean_on_error is set and an error occurred.
C3_StopExactlyOnce ==
    (gen = "finished" /\ testbed_open) =>
        stop_calls = IF no_clean_on_error /\ ErrorObserved THEN 0 ELSE 1

\* The testbed operations of one build cycle that C13 lists, in order.
CycleOps == <<"copydown", "rm", "execute", "copy", "copyup">>

\* The operations of CycleOps issued for the build called name, in order.
CycleOpsOf(name) ==
    LET mine == SelectSeq(ops, LAMBDA o : o[2] = name /\ o[1] \in {"copydown", "rm", "execute",
                                                                 "copy", "copyup"})
    IN  [k \in 1..Len(mine) |-> mine[k][1]]

\* C13: for every (name, spec) sent, when nothing in the environment fails,
\* the testbed operations copydown, removal of old artifacts, execution of
\* the build script, copy of the artifacts and copyup are issued in this
\* order with none skipped, and then local_dist is yielded.
C13_BuildCycleComplete ==
    \A i \in 1..Len(sent) :
        (sent[i].fresh /\ sent[i].fail = "none") =>
            /\ CycleOpsOf(sent[i].name) = CycleOps
            /\ (i = Len(sent) => gen = "suspended")

\* A send is the only way a build is started, and the first send ends the
\* coroutine: no second send is ever received.
AtMostOneSend == Len(sent) <= 1 /\ (Len(sent) = 1 => gen = "finished")

\* C20: a run that ends with a plan error (apply_dynamic_defaults or
\* plan_variations raising ValueError) has not started or opened the
\* testbed.
C20_PlanErrorBeforeTestbedStart ==
    (gen = "finished" /\ raised_step = "plan") =>
        (~testbed_started /\ ~testbed_open /\ ops = <<>>)

(***************************************************************************)
(* Properties of the planner (under SpecPlan)                              *)
(***************************************************************************)

\* The canonical order of the registry, as the specification lists it.
CanonicalOrder ==
    <<"environment", "build_path", "user_group", "fileordering", "domain_host",
      "home", "kernel", "locales", "exec_path", "time", "timezone", "umask">>

Reverse(sq) == [i \in 1..Len(sq) |-> sq[Len(sq) + 1 - i]]

\* The resources a setup command makes that a cleanup command can undo: a
\* directory, a moved tree, a mount, the shim scripts, a changed owner.
Created(b, cmd) ==
    LET aux == PathStr(b.aux_tree) IN
    CASE cmd[1] = "mkdir" -> {<<"dir", cmd[3]>>}
      [] cmd[1] = "mv" -> {<<"moved", cmd[2], cmd[3]>>}
      [] cmd[1] = "disorderfs" -> {<<"mount", cmd[5]>>}
      [] cmd[1] = "sh" /\ cmd[3] # "echo 127.0.0.1 {1} > {0}/hosts && cat /etc/hosts >> {0}/hosts"
            -> {<<"shims", cmd[4]>>}
      [] cmd[1] = "sudo" /\ cmd[2] = "chown" -> {<<"owner", cmd[7], "--from=" \o cmd[6]>>}
      [] cmd[1] = "sudo" /\ cmd[2] = "mount" /\ cmd[3] = "-B" -> {<<"mount", cmd[5]>>}
      [] cmd[1] = "sudo" /\ cmd[2] = "unshare"
            -> {<<"mount", aux \o "/ns-mnt">>, <<"mount", aux \o "/ns-uts">>}
      [] OTHER -> {}

\* The resource a cleanup command undoes, <<>> if none.
Undone(cmd) ==
    CASE cmd[1] \in {"rm", "rmdir"} -> <<"dir", cmd[Len(cmd)]>>
      [] cmd[1] = "mv" -> <<"moved", cmd[3], cmd[2]>>
      [] cmd[1] = "fusermount" -> <<"mount", cmd[3]>>
      [] cmd[1] = "sh" -> <<"shims", cmd[4]>>
      [] cmd[1] = "sudo" /\ cmd[2] = "chown" -> <<"owner", cmd[7], cmd[5]>>
      [] cmd[1] = "sudo" /\ cmd[2] = "umount" -> <<"mount", cmd[3]>>
      [] OTHER -> <<>>

SetMax(S) == CHOOSE x \in S : \A y \in S : y <= x

\* The cleanup commands cl undo resources of the setup commands in reverse
\* order of those commands: each one undoes a resource that is left of the
\* latest setup command not later than the one the previous cleanup command
\* was paired with.  left[g] are the resources of setup command g not yet
\* undone; top is the setup command the previous cleanup command was paired
\* with.
RECURSIVE LifoFrom(_, _, _)
LifoFrom(left, cl, top) ==
    IF cl = <<>> THEN TRUE
    ELSE LET r == Undone(Head(cl))
             cands == {g \in 1..top : r \in left[g]}
         IN  IF r = <<>> THEN LifoFrom(left, Tail(cl), top)
             ELSE IF cands = {} THEN FALSE
             ELSE LifoFrom([left EXCEPT ![SetMax(cands)] = @ \ {r}],
                           Tail(cl), SetMax(cands))

\* C6: in every planned Build (and at every stage of planning it) the
\* cleanup commands undo what the setup commands made in the reverse order
\* of the setup commands, and the removal of aux_tree is the last cleanup
\* command.
C6_CleanupIsLifo ==
    plan_pc \in {"planning", "done"} =>
        /\ LifoFrom([g \in 1..Len(build.setup) |-> Created(build, build.setup[g])],
                    build.cleanup, Len(build.setup))
        /\ build.cleanup[Len(build.cleanup)] = <<"rm", "-rf", PathStr(build.aux_tree)>>

\* A planned Build with the cleanup commands of build_path, user_group,
\* fileordering and domain_host.
C6_Witness ==
    /\ plan_pc = "done"
    /\ {"user_group", "fileordering", "domain_host"} \subseteq spec.names
    /\ "build_path" \notin spec.names
    /\ Len(build.cleanup) = 11

\* C7: plan_variations calls every transform once, in the canonical order,
\* with vary true exactly for the keys of the VariationSpec.
C7_PlanOrder ==
    /\ Len(applied) <= Len(CanonicalOrder)
    /\ \A i \in 1..Len(applied) :
          applied[i] = <<CanonicalOrder[i], CanonicalOrder[i] \in spec.names>>
    /\ plan_pc = "done" => Len(applied) = Len(CanonicalOrder)

\* A finished plan of a spec that varies some names and fixes others.
C7_Witness ==
    /\ plan_pc = "done"
    /\ spec.names = {"build_path", "locales", "umask"}
    /\ applied[1] = <<"environment", FALSE>>
    /\ applied[12] = <<"umask", TRUE>>

\* The transform that adds a given wrapper of build_command.
AddedBy(layer) ==
    CASE layer[1] = "faketime" -> "time"
      [] layer[1] \in {"linux64", "linux32"} -> "kernel"
      [] layer[1] = "unshare" -> "domain_host"
      [] layer[1] = "sudo" /\ layer[3] = "nsenter" -> "domain_host"
      [] layer[1] = "sudo" /\ layer[3] # "nsenter" -> "user_group"
      [] OTHER -> "none"

\* The wrappers of build_command, outermost first (without sh -ec <command>).
Wrappers == SubSeq(build.build_command, 1, Len(build.build_command) - 1)

\* The enabled transforms that add a wrapper, in registry order.
EnabledAdders ==
    SelectSeq(CanonicalOrder,
              LAMBDA n : /\ n \in spec.names
                         /\ \/ n \in {"domain_host", "kernel", "time"}
                            \/ n = "user_group" /\ spec.available # {})

\* The transforms that add a wrapper, in registry order: kernel adds one
\* whether it is enabled or not.
Adders ==
    SelectSeq(CanonicalOrder,
              LAMBDA n : \/ n = "kernel"
                         \/ n \in spec.names /\ n \in {"domain_host", "time"}
                         \/ n \in spec.names /\ n = "user_group" /\ spec.available # {})

\* C8 (as claimed): the outermost wrapper is the one of the last enabled
\* transform that adds a wrapper, the innermost the one of the first.
C8_OutermostIsLastEnabled ==
    (plan_pc = "done" /\ EnabledAdders # <<>>) =>
        /\ Wrappers # <<>>
        /\ AddedBy(Wrappers[1]) = EnabledAdders[Len(EnabledAdders)]
        /\ AddedBy(Wrappers[Len(Wrappers)]) = EnabledAdders[1]

\* C8 (amended): the wrappers nest in registry order of the transforms that
\* add one, where kernel adds one whether it is enabled or not.
C8_WrappersNestInRegistryOrder ==
    plan_pc = "done" =>
        [i \in 1..Len(Wrappers) |-> AddedBy(Wrappers[i])] = Reverse(Adders)

\* A planned Build with the wrappers of user_group, domain_host, time and
\* of kernel, which is not enabled.
C8_Witness ==
    /\ plan_pc = "done"
    /\ {"user_group", "domain_host", "time"} \subseteq spec.names
    /\ "kernel" \notin spec.names
    /\ Len(Wrappers) = 4
    /\ Wrappers[2] = <<"linux64", "--uname-2.6">>

(***************************************************************************)
(* Properties of the planned script on the testbed (under SpecRun)         *)
(***************************************************************************)

\* The testbed is as it was before setup: the tree at testbed_src with its
\* owner, no other directory, no file, no mount.
Restored ==
    /\ fs.tree_at = PathStr(testbed_src)
    /\ fs.dirs = {PathStr(testbed_src)}
    /\ fs.files = {}
    /\ fs.mounts = <<>>
    /\ fs.owner = olduser

\* The variation that writes the shim scripts is in effect.
ShimsMade == "user_group" \in spec.names /\ spec.available # {}

\* C4: if a setup command fails, then after the cleanup list has run the
\* testbed is as it was before setup.
C4_RestoredAfterSetupFailure ==
    (run_pc = "done" /\ cleaned /\ failed_at \in 1..Len(build.setup)) => Restored

\* C5: after setup, build and cleanup have all succeeded nothing made by
\* setup remains in the testbed.
C5_NothingRemainsAfterSuccess ==
    (run_pc = "done" /\ failed_at = 0 /\ run_c = 0) => Restored

\* Where the shim scripts are not made and the tree has entries, the
\* cleanup list does restore the testbed, after success and after the
\* failure of any command of run_build.
RestoredWithoutShims ==
    (run_pc = "done" /\ cleaned /\ ~ShimsMade /\ ~fs.tree_empty) => Restored

\* After a success every cleanup command succeeds.
CleanupSucceedsAfterSuccess ==
    (run_pc \in {"cleanup", "done"} /\ failed_at = 0) => run_c = 0

\* mv never finds its target present.
MvTargetIsFree ==
    \A cmd \in ({new_script.setup[i] : i \in {j \in 1..Len(new_script.setup) :
                                            run_pc = "setup" /\ j = run_i}}
                \cup {build.cleanup[i] : i \in {j \in 1..Len(build.cleanup) :
                                            run_pc = "cleanup" /\ j = run_i}}) :
        (cmd[1] = "mv" /\ cmd[2] \in fs.dirs) => cmd[3] \notin fs.dirs

(***************************************************************************)
(* Properties of check's verdict (under SpecVerdict)                       *)
(***************************************************************************)

\* The diff return codes of the experiments.
ExperimentCodes == {diff_out[local_dists[i]] : i \in 2..Len(local_dists)}

\* C15: the exit code is 0 iff every experiment's diff return code is 0, 1
\* iff the largest one is 1, and 125 when one is greater than 1.
C15_ExitCodeFromOutcomes ==
    drv_pc = "done" =>
        /\ drv_exit = 0 <=> ExperimentCodes = {0}
        /\ drv_exit = 1 <=> (1 \in ExperimentCodes /\ \A rc \in ExperimentCodes : rc <= 1)
        /\ (\E rc \in ExperimentCodes : rc > 1) => drv_exit = 125

\* C16: when some experiment's diff returned 0 and another's 1 (and none
\* more than 1), the names listed as partially successful are exactly the
\* names of the experiments whose own diff returned 0.
C16_PartialNamesAreTheReproducing ==
    (/\ drv_pc = "done"
     /\ {0, 1} \subseteq ExperimentCodes
     /\ \A rc \in ExperimentCodes : rc <= 1)
        => {partial_names[i] : i \in 1..Len(partial_names)}
               = {local_dists[i] : i \in {j \in 2..Len(local_dists) :
                                              diff_out[local_dists[j]] = 0}}

(***************************************************************************)
(* Properties of check_auto's search (under SpecAuto)                      *)
(***************************************************************************)

\* check_auto got to the walk: the control spec reproduced and the full
\* spec did not.
WalkReached == oracle["0"] = "True" /\ oracle["1"] = "False"

\* The walk's calls of is_reproducible, in order.
WalkTests == SelectSeq(tested, LAMBDA e : e.name \notin {"0", "1"})

\* The spec that was current when the i-th candidate of the walk was
\* formed: the control spec with the earlier candidates found reproducible.
CurrentAt(i) == {WalkTests[j].name : j \in {k \in 1..(i - 1) :
                                                oracle[WalkTests[k].name] = "True"}}

\* C18: when the walk is reached and every call of is_reproducible returns,
\* then for any full spec check_auto ends having tested every registered
\* name exactly once (k + 2 builds after the control), each candidate being
\* the current spec with that name's configuration replaced, and the
\* witnesses being exactly the names whose candidate was not reproducible.
C18_WalkTestsEveryNameOnce ==
    (/\ drv_pc = "done"
     /\ WalkReached
     /\ \A v \in all_names : oracle[v] \in {"True", "False"})
        => /\ Len(WalkTests) = Cardinality(all_names)
           /\ {WalkTests[i].name : i \in 1..Len(WalkTests)} = all_names
           /\ Len(tested) = Cardinality(all_names) + 2
           /\ \A i \in 1..Len(WalkTests) :
                 WalkTests[i].spec = CurrentAt(i) \cup {WalkTests[i].name}
           /\ {unreproducibles[i] : i \in 1..Len(unreproducibles)}
                  = {v \in all_names : oracle[v] = "False"}
           /\ drv_result = "False"

\* C19: in a walk over a full spec that has every registered name, a
\* candidate whose build fails or whose diff fails is recorded as a witness
\* and the walk goes on to the end: every name is tested and the run ends
\* with the verdict "not reproducible".
C19_FailingCandidateIsWitness ==
    (/\ drv_pc = "done"
     /\ WalkReached
     /\ var_x1 = all_names)
        => /\ drv_exit = 1
           /\ {WalkTests[i].name : i \in 1..Len(WalkTests)} = all_names
           /\ \A v \in all_names :
                 oracle[v] # "True" =>
                     v \in {unreproducibles[i] : i \in 1..Len(unreproducibles)}

\* With a full spec that has every registered name and calls that all
\* return, the walk is as described.
WalkOverCompleteSpec ==
    (/\ drv_pc = "done"
     /\ WalkReached
     /\ var_x1 = all_names
     /\ \A v \in all_names : oracle[v] \in {"True", "False"})
        => /\ C18_WalkTestsEveryNameOnce
           /\ C19_FailingCandidateIsWitness

\* Before the walk: the control, then the control spec again; a failure
\* there ends check_auto, and so does a success of the full spec.
AutoPrelude ==
    (drv_pc = "done" /\ \A n \in {"0", "1"} : oracle[n] \in {"True", "False"})
        => /\ oracle["0"] = "False" =>
                 (drv_result = "False" /\ tested = <<[name |-> "0", spec |-> {}]>>)
           /\ (oracle["0"] = "True" /\ oracle["1"] = "True") =>
                 /\ drv_result = "True"
                 /\ tested = <<[name |-> "0", spec |-> {}],
                               [name |-> "1", spec |-> var_x1]>>

(***************************************************************************)
(* Properties of a whole run (under SpecMain)                              *)
(***************************************************************************)

\* The names of the builds sent to corun_builds, in order.
SentNames == [i \in 1..Len(sent) |-> sent[i].name]

\* Nothing in the environment failed: no step of corun_builds was made to
\* fail before the first yield or during a send.
NoEnvironmentFailure ==
    /\ raised_step \notin (PrimeFailures \cup SendFailures) \ {"none"}
    /\ \A i \in 1..Len(sent) : sent[i].fail = "none"

\* C17: a run of check_auto in which nothing of the environment fails
\* builds the control and then the control spec again; when that build is
\* not reproducible the run ends with failure after these two builds, and
\* when it and the full spec are reproducible the run ends with success
\* after three builds.
C17_ControlThenFixedThenFull ==
    (/\ check_func = "check_auto"
     /\ drv_pc = "done"
     /\ NoEnvironmentFailure
     /\ \A n \in {"0", "1"} : oracle[n] \in {"True", "False"})
        => /\ oracle["0"] = "False" =>
                 (drv_exit = 1 /\ SentNames = <<"control", "experiment-0">>)
           /\ (oracle["0"] = "True" /\ oracle["1"] = "True") =>
                 (drv_exit = 0
                  /\ SentNames = <<"control", "experiment-0", "experiment-1">>)

\* Every run that gets to its first build ends there, with the TypeError
\* of to_script() or an earlier exception, and returns 125.
RunNeverReachesAVerdict ==
    drv_pc = "done" => (drv_exit = 125 /\ Len(sent) <= 1 /\ gen = "finished")

(***************************************************************************)
(* Properties of run's handling of the patterns (under SpecArgs)           *)
(***************************************************************************)

\* C21: when the sanitizer rejects the artifact pattern or the source
\* pattern, the invocation ends with exit code 2, no testbed is started and
\* no build is run.
C21_RejectedPatternExitsTwo ==
    san_result = "rejected" =>
        /\ drv_pc = "done" => proc_exit = 2
        /\ ~testbed_started /\ ops = <<>> /\ sent = <<>>

\* A rejected pattern ends the invocation before corun_builds is called.
RejectedPatternStartsNothing ==
    san_result = "rejected" =>
        (gen = "unprimed" /\ ~testbed_started /\ ops = <<>> /\ sent = <<>>)

(***************************************************************************)
(* Properties of the loop of corun_builds (under SpecLoop)                 *)
(***************************************************************************)

\* The positions in ops of the executions of the testbed_init snippet.
InitRuns == {i \in 1..Len(ops) : ops[i][1] = "testbed_init"}

\* C22: the testbed_init snippet is executed at most once on a testbed, and
\* before the first copydown.
C22_TestbedInitOncePerTestbed ==
    /\ Cardinality(InitRuns) <= 1
    /\ \A i \in InitRuns : \A j \in 1..(i - 1) : ops[j][1] # "copydown"

\* The copydowns of a build name.
CopydownsOf(name) == {i \in 1..Len(ops) : ops[i] = <<"copydown", name>>}

\* C14: a send whose name was already built ends the coroutine with
\* ValueError, and no second copydown of that name is made.
C14_DuplicateRejectedBeforeCopydown ==
    /\ \A name \in BuildNames : Cardinality(CopydownsOf(name)) <= 1
    /\ \A i \in 1..Len(sent) :
          ~sent[i].fresh =>
              /\ i = Len(sent) /\ gen = "finished"
              /\ raised = "ValueError" /\ raised_step = "duplicate"

C14_Witness ==
    /\ raised_step = "duplicate"
    /\ Len(sent) = 3
    /\ sent[3].name = sent[1].name
    /\ Cardinality(CopydownsOf(sent[3].name)) = 1

(***************************************************************************)
(* Properties of the planner when programs are missing (under SpecTools)   *)
(***************************************************************************)

\* The next call of the loop of plan_variations varies a variation that
\* lacks a program it requires.
NextActionLacksTool ==
    /\ plan_pc = "planning"
    /\ plan_i <= Len(actions(spec))
    /\ actions(spec)[plan_i][2]
    /\ tool_missing(actions(spec)[plan_i][1], path_tools) # {}

\* C23: a varied transform whose required program is missing is a no-op:
\* it returns the build it was given.
C23_MissingToolIsNoOp ==
    [][(NextActionLacksTool /\ plan_i' = plan_i + 1) => build' = build]_vars

\* Every varied variation that lacks a program is in the list of warnings.
MissingToolsAreWarned ==
    plan_pc # "warn" =>
        \A i \in 1..Len(actions(spec)) :
            (actions(spec)[i][2] /\ tool_missing(actions(spec)[i][1], path_tools) # {})
                => \E j \in 1..Len(warned) : warned[j][1] = actions(spec)[i][1]

(***************************************************************************)
(* Properties of VariationSpec.extend (under SpecExtend)                   *)
(***************************************************************************)

WithoutLocale(b) ==
    [b EXCEPT !.env = [k \in DOMAIN b.env \ {"LANG", "LC_ALL", "LANGUAGE"} |-> b.env[k]]]

\* Another plan made from the same spec and the same base build.
OtherPlan ==
    plan_variations(spec,
                    from_command("cd $REPROTEST_BUILD_PATH; build_command",
                                 os_environ, testbed_src),
                    1, CHOOSE f \in PicksOf(spec) : TRUE)

\* C25: a finished plan is the same as any other plan made from the same
\* spec and the same base build, up to the values locales and user_group
\* choose at random.
C25_PlansDifferOnlyInRandomValues ==
    plan_pc = "done" =>
        \/ WithoutLocale(build) = WithoutLocale(OtherPlan)
        \/ /\ Cardinality(spec.available) > 1
           /\ build.setup = OtherPlan.setup
           /\ build.cleanup = OtherPlan.cleanup
           /\ Len(build.build_command) = Len(OtherPlan.build_command)

\* The plans of a spec that does not vary time differ at most in the
\* locale.
PlansWithoutTimeAgree ==
    (plan_pc = "done" /\ "time" \notin spec.names)
        => WithoutLocale(build) = WithoutLocale(OtherPlan)

(***************************************************************************)
(* Properties of the SHA-256 sums (under SpecAuto and SpecVerdict)         *)
(***************************************************************************)

\* C26: a run ends with the verdict reproducible exactly when the sums of
\* the control's artifacts were emitted.
C26_HashesIffReproducible ==
    drv_pc = "done" => (drv_exit = 0 <=> hashes_emitted)

\* check emits the sums exactly when it returns True.
CheckEmitsHashesIffTrue ==
    (check_func = "check" /\ drv_pc = "done") => (drv_result = "True" <=> hashes_emitted)

(***************************************************************************)
(* Properties of the planned factors (under SpecPlan and SpecMain)         *)
(***************************************************************************)

\* The plan of the control build: the spec with no variation, planned on
\* the control's copy of the source.
ControlPlan ==
    plan_variations([names |-> {}, variables |-> <<>>, available |-> {}, use_sudo |-> FALSE],
                    from_command("cd $REPROTEST_BUILD_PATH; build_command", os_environ,
                                 join(testbed_root, "build-control")),
                    1, [user_group |-> <<>>, locales |-> <<>>, time |-> <<>>])

\* The value a planned build gives to the factor a variation is about.
Factor(name, b) ==
    CASE name = "build_path" -> <<PathStr(b.tree)>>
      [] name = "home" -> <<b.env["HOME"]>>
      [] name = "kernel" -> SelectSeq(b.build_command,
                                      LAMBDA c : c[1] \in {"linux64", "linux32"})
      [] name = "locales" -> <<b.env["LANG"]>>
      [] name = "exec_path" -> <<b.env["PATH"]>>
      [] name = "timezone" -> <<b.env["TZ"]>>
      [] name = "umask" -> SelectSeq(b.setup, LAMBDA c : c[1] = "umask")

\* The variations whose factor is a value of the plan.
VariedFactorNames == {"home", "kernel", "locales", "exec_path", "timezone", "umask"}

\* Each of these variations, when enabled, gives the build a value of its
\* factor that the control does not have.
VariedFactorDiffers ==
    plan_pc = "done" =>
        \A name \in VariedFactorNames \cap spec.names :
            Factor(name, build) # Factor(name, ControlPlan)

\* C28: for every variation that is not enabled in the spec, whatever the
\* enabled ones are, the planned build has the control's value of that
\* factor.
C28_DisabledFactorAsControl ==
    plan_pc = "done" =>
        \A name \in (VariedFactorNames \cup {"build_path"}) \ spec.names :
            Factor(name, build) = Factor(name, ControlPlan)

\* With build_path not varied either, a disabled variation has the
\* control's value.
DisabledFactorAsControlOnConstPath ==
    (plan_pc = "done" /\ "build_path" \notin spec.names) =>
        \A name \in (VariedFactorNames \cup {"build_path"}) \ spec.names :
            Factor(name, build) = Factor(name, ControlPlan)

\* C27: a run of check whose experiments vary one of these factors, with a
\* build that writes the factor into its artifact (each diff against the
\* control returns 1) and nothing failing, ends with exit code 1.
C27_VariedFactorReported ==
    (/\ check_func = "check"
     /\ drv_pc = "done"
     /\ NoEnvironmentFailure
     /\ \A e \in DOMAIN diff_out : diff_out[e] = 1)
        => drv_exit = 1

(***************************************************************************)
(* Properties of run_build's script (under SpecTestbed)                    *)
(***************************************************************************)

\* The steps of a send that come before run_build renders the script.
StepsBeforeScript == {"plan", "testbed_init", "copydown", "rm"}

\* C29: for every build that gets as far as run_build's script, the script
\* is rendered (to_script returns) and executed in the testbed.
C29_ScriptRenderedAndExecuted ==
    \A i \in 1..Len(sent) :
        (sent[i].fresh /\ sent[i].fail \notin StepsBeforeScript) =>
            /\ raised_step # "to_script"
            /\ \E k \in 1..Len(ops) : ops[k] = <<"execute", sent[i].name>>

(***************************************************************************)
(* Properties of the cleanup function (under SpecScript)                   *)
(***************************************************************************)

\* The cleanup commands that have been attempted in the current call and
\* failed.
FailedSoFar == {k \in 1..(sh_i - 1) : k <= Len(cleanup_rc) /\ cleanup_rc[k] # 0}

\* C30: while the function cleanup runs, the saved status __c is non-zero
\* iff one of the commands attempted so far failed, whatever failed before
\* the next command is attempted; when it has ended, every command of the
\* list was attempted and the status it exited with is non-zero iff at
\* least one of them failed.
C30_EveryCleanupCommandAttempted ==
    /\ sh_pc \in {"then_cleanup", "else_cleanup"} =>
          /\ (sh_c # 0 <=> FailedSoFar # {})
          /\ cleanup_done = sh_i - 1
    /\ (sh_pc \in {"exit_x", "done"} /\ cleanup_calls = 1) =>
          /\ cleanup_done = Len(cleanup_rc)
          /\ sh_c # 0 <=> \E k \in 1..Len(cleanup_rc) : cleanup_rc[k] # 0

\* The first cleanup command failed, the second one was attempted and
\* succeeded, and the function exited with the saved status.
C30_Witness ==
    /\ sh_pc = "done" /\ cleanup_calls = 1
    /\ cleanup_rc = <<2, 0>> /\ cleanup_done = 2 /\ sh_c = 2

(***************************************************************************)
(* Signals (under SpecSignal)                                              *)
(***************************************************************************)

\* C31: a trapped signal delivered after the trap command makes the shell
\* call cleanup, and over the whole run of the script the function cleanup
\* is executed at most once.
C31_CleanupAtMostOnceWithSignals == cleanup_calls <= 1

\* The first half: the script does not leave through "exit $__x" with the
\* action of a delivered signal still to run.
SignalActionRuns == (sh_pc = "done" /\ sh_status # 0) => ~sig_pending

(***************************************************************************)
(* Helper files of the planned script (under SpecRun)                      *)
(***************************************************************************)

\* The shim scripts user_group writes.
ShimFiles == {x \in fs.files : \E n \in {"disorderfs", "mkdir", "fusermount"} :
                                  x = PathStr(join(testbed_root, "bin")) \o "/" \o n}

\* C32: every file the setup commands create lies under build.aux_tree, and
\* aux_tree is made by the first setup command and removed by the last
\* cleanup command.
C32_HelperFilesUnderAuxTree ==
    plan_pc = "done" =>
        /\ \A x \in fs.files : Under(x, PathStr(build.aux_tree))
        /\ build.setup[1] = <<"mkdir", "-p", PathStr(build.aux_tree)>>
        /\ build.cleanup[Len(build.cleanup)] = <<"rm", "-rf", PathStr(build.aux_tree)>>

\* What does hold: aux_tree is made first and removed last, and every file
\* but the shim scripts lies under it.
AllButShimsUnderAuxTree ==
    plan_pc = "done" =>
        /\ \A x \in fs.files \ ShimFiles : Under(x, PathStr(build.aux_tree))
        /\ build.setup[1] = <<"mkdir", "-p", PathStr(build.aux_tree)>>
        /\ build.cleanup[Len(build.cleanup)] = <<"rm", "-rf", PathStr(build.aux_tree)>>

\* The shim scripts are in <testbed root>/bin, which does not depend on the
\* name of the build: every build on the testbed writes the same files.
ShimsNotInSharedDirectory == ShimFiles = {}

(***************************************************************************)
(* The choice of user_group (under SpecChoice)                             *)
(***************************************************************************)

\* C33: the user:group that user_group chooses is never the current user
\* and group.
C33_ChosenIsNotCurrent ==
    ug_pc = "parsed" => ug_parsed # current_user_group

\* The choice is always an entry of available, whatever it is.
ChosenIsAvailable == ug_pc \in {"chosen", "parsed"} => ug_choice \in ug_available

\* The subtraction removes nothing.
NothingExcluded ==
    ug_pc = "chosen" => Candidates(ug_available) = {PyStr(x) : x \in ug_available}

(***************************************************************************)
(* The faked time (under SpecFaketime)                                     *)
(***************************************************************************)

\* By how many seconds the clock the build sees differs from the real one:
\* an absolute time starts the clock at t, the relative date moves it ahead.
ClockDifference ==
    IF ft_faket.at THEN ft_now - ft_faket.t ELSE ft_faket.t

\* C34: for every entry chosen, the argument of faketime is the entry when
\* it is "@t" with t more than 32253180 s before now and else the relative
\* date, and the faked clock is at least 32253180 s from the real one.
C34_FaketimeFarFromNow ==
    ft_pc \in {"chosen", "done", "error"} /\ ft_faketimes # {} =>
        /\ ft_pc # "error"
        /\ ft_pc = "done" =>
              /\ ft_faket = IF ft_lastmt.at /\ ft_lastmt.isint
                                 /\ ft_now - ft_lastmt.t > FaketimeAge
                            THEN ft_lastmt ELSE RelativeDate
              /\ ClockDifference >= FaketimeAge

\* The same for the entries for which the if can be evaluated.
FaketimeFarFromNowWhenDecided ==
    ft_pc = "done" =>
        /\ ft_faket = IF ft_lastmt.at /\ ft_now - ft_lastmt.t > FaketimeAge
                      THEN ft_lastmt ELSE RelativeDate
        /\ ClockDifference >= FaketimeAge

\* The relative date is exactly the age the absolute time is compared with.
RelativeDateIsTheAge == RelativeSeconds = FaketimeAge

(***************************************************************************)
(* The output of sanitize_globs (under SpecSanWords)                       *)
(***************************************************************************)

\* Character i of str separates words: a space outside quotes, not escaped.
Separator(str, i) == str[i] = " " /\ Bare(str, i)

\* The characters of str that remain when leading and trailing separators
\* are removed and each run of separators between words is made one space:
\* every character of a word, and the last separator of a run that has a
\* word before it and a word after it.
Kept(str) ==
    {i \in 1..Len(str) :
        \/ ~Separator(str, i)
        \/ /\ \E j \in 1..(i - 1) : ~Separator(str, j)
           /\ i < Len(str)
           /\ ~Separator(str, i + 1)}

RECURSIVE Select(_, _, _)
Select(str, keep, i) ==
    IF i > Len(str) THEN <<>>
    ELSE (IF i \in keep THEN <<str[i]>> ELSE <<>>) \o Select(str, keep, i + 1)

SameLexicalForm(str) == Select(str, Kept(str), 1)

\* C35: with forcerel false, the string returned for an accepted input is
\* the input with leading and trailing spaces removed and each run of
\* spaces between words replaced by one space; no character is added or
\* dropped inside a word.
C35_OutputIsInputNormalised ==
    (san_result = "accepted" /\ ~forcerel) => san_out = SameLexicalForm(s)

\* A backslash inside double quotes that is followed by a character other
\* than $ ` " \ and newline.
KeptBackslashInDouble(str) ==
    \E i \in 1..(Len(str) - 1) :
        /\ str[i] = "\\" /\ InDouble(str, i) /\ ~Escaped(str, i)
        /\ str[i + 1] \notin escaped_in_double_quotes

\* The accepted inputs without such a backslash are returned in the same
\* lexical form.
OutputIsInputNormalisedElsewhere ==
    (san_result = "accepted" /\ ~forcerel /\ ~KeptBackslashInDouble(s))
        => san_out = SameLexicalForm(s)

(***************************************************************************)
(* Where the build runs and where its tree ends up (under SpecRun)         *)
(***************************************************************************)

\* The directories disorderfs serves at mount point p.
ServedAt(p) ==
    {new_script.setup[i][4] : i \in {j \in 1..Len(new_script.setup) :
        new_script.setup[j][1] = "disorderfs" /\ new_script.setup[j][5] = p}}

\* "cd $REPROTEST_BUILD_PATH" enters the source tree: the tree is at
\* build.tree, or a disorderfs mounted at build.tree serves it.
BuildRunsInTree ==
    LET p == PathStr(build.tree) IN
    IF Mounted(fs, p) THEN fs.tree_at \in ServedAt(p) ELSE fs.tree_at = p

\* build_command is the next command of run_build.
BeforeBuildCommand ==
    plan_pc = "done" /\ run_pc = "setup" /\ run_i = Len(new_script.setup) + 1

\* The script has finished and setup, build_command and cleanup succeeded.
ScriptSucceeded == run_pc = "done" /\ failed_at = 0 /\ run_c = 0

\* C36: the build command runs in the source tree, and after the script has
\* finished successfully that tree is at testbed_src, where run_build
\* collects the artifacts, with nothing mounted over it.
C36_TreeBackAtTestbedSrc ==
    /\ BeforeBuildCommand => BuildRunsInTree
    /\ ScriptSucceeded =>
          /\ fs.tree_at = PathStr(testbed_src)
          /\ PathStr(testbed_src) \in fs.dirs
          /\ ~Mounted(fs, PathStr(testbed_src))

\* A script whose tree was moved to const_build_path and served through
\* disorderfs has finished successfully.
C36_Witness ==
    /\ ScriptSucceeded
    /\ "build_path" \notin spec.names
    /\ "fileordering" \in spec.names
    /\ \E i \in 1..Len(build.setup) : build.setup[i][1] = "disorderfs"
    /\ build.tree = join(testbed_root, "const_build_path")

(***************************************************************************)
(* check's verdict and negative return codes (under SpecVerdict)           *)
(***************************************************************************)

\* C37: check returns True only if the diff of every experiment returned
\* exactly 0.
C37_TrueOnlyIfEveryDiffIsZero ==
    (check_func = "check" /\ drv_result = "True") => ExperimentCodes = {0}

\* What does hold: True is returned only if no diff returned more than 0,
\* and a positive return code always prevents it.
TrueOnlyIfNoDiffIsPositive ==
    (check_func = "check" /\ drv_result = "True") => \A rc \in ExperimentCodes : rc <= 0

(***************************************************************************)
(* The current spec of check_auto's walk (under SpecAuto)                  *)
(***************************************************************************)

\* The calls of is_reproducible made by the walk.
WalkCalls == {i \in 1..Len(tested) : tested[i].name \in all_names}

\* On the calls made so far is_reproducible has answered as a function of
\* the spec: two calls with the same spec had the same outcome.
OracleIsFunctionOfSpec ==
    \A i, j \in 1..Len(tested) :
        tested[i].spec = tested[j].spec => oracle[tested[i].name] = oracle[tested[j].name]

\* The loop of the walk has ended and check_auto has printed the witnesses.
WalkEnded ==
    drv_pc = "done" /\ drv_result = "False" /\ Walked = all_names

\* C38: during the walk var_cur is the control spec or a candidate for
\* which is_reproducible returned True; and when is_reproducible is a
\* function of the spec and the full spec configures every registered name,
\* the list of witnesses is not empty when the walk ends.
C38_CurrentSpecReproducesAndWitnessExists ==
    /\ (check_func = "check_auto" /\ drv_pc \in {"walk", "done"}) =>
          \/ var_cur = {}
          \/ \E i \in WalkCalls : tested[i].spec = var_cur /\ oracle[tested[i].name] = "True"
    /\ (WalkEnded /\ OracleIsFunctionOfSpec /\ var_x1 = all_names) => unreproducibles # <<>>

\* A walk that kept a candidate and met a witness, with is_reproducible a
\* function of the spec and a complete full spec.
C38_Witness ==
    /\ WalkEnded /\ OracleIsFunctionOfSpec /\ var_x1 = all_names
    /\ var_cur # {}
    /\ unreproducibles # <<>>

(***************************************************************************)
(* The artifact directories (under SpecStore)                              *)
(***************************************************************************)

\* The return code of the diff of build n against the control, for the
\* builds that were compared: diff_out in check, the outcome of the call of
\* is_reproducible in check_auto.
DiffReturned(n, rc) ==
    IF check_func = "check"
    THEN /\ \E k \in 1..Len(retcodes) : local_dists[k + 1] = n
         /\ diff_out[n] = rc
    ELSE \E i \in 1..Len(tested) :
            /\ n = "experiment-" \o tested[i].name
            /\ RetcodeOf(oracle[tested[i].name]) = rc

\* C39: the control's directory stays a directory; a directory is replaced
\* by a symlink only if it is an experiment's, a store directory is set and
\* its diff returned 0, so one whose diff returned non-zero is unchanged.
C39_ControlDirectoryKept ==
    /\ "control" \in DOMAIN dist_state => dist_state["control"] = "dir"
    /\ \A n \in DOMAIN dist_state :
          dist_state[n] = "symlink" =>
              /\ n # "control"
              /\ store_dir
              /\ DiffReturned(n, 0)

\* With a store directory, one experiment was replaced by a symlink and
\* another, whose diff returned 1, was not.
C39_Witness ==
    /\ store_dir
    /\ "control" \in DOMAIN dist_state
    /\ dist_state["control"] = "dir"
    /\ \E n, m \in DOMAIN dist_state :
          /\ dist_state[n] = "symlink"
          /\ dist_state[m] = "dir" /\ DiffReturned(m, 1)

(***************************************************************************)
(* A testbed that started but did not open (under SpecTestbed)             *)
(***************************************************************************)

\* testbed.start() succeeded and testbed.open() raised: start_testbed was
\* left from the statement before its try block.
OpenFailedAfterStart ==
    gen = "finished" /\ raised_step = "open" /\ testbed_started /\ ~testbed_open

\* C40: if testbed.open() fails after testbed.start() has succeeded and
\* no_clean_on_error is not set, testbed.stop() has been called.
C40_StartedTestbedReleased ==
    (OpenFailedAfterStart /\ ~no_clean_on_error) => stop_calls >= 1

\* What the code does: after a failed open() stop() is never called,
\* whatever no_clean_on_error is.
OpenFailureLeavesTestbedStarted ==
    OpenFailedAfterStart => stop_calls = 0

====
